---- MODULE Spec2Model ----
(***************************************************************************)
(* A model of react-vscode-webview-ipc: the webview-side RPC client engine *)
(* (src/lib/client/WebviewProvider.tsx, src/lib/client/types.ts) and the   *)
(* host-side view registry (src/lib/host/WebviewApiProvider.ts), the       *)
(* useVscodeState hook, the host's BaseWebviewViewProvider, the message    *)
(* guards (src/lib/types.ts), the logger (src/lib/host/logger.ts) and the  *)
(* RPC dispatcher of README.md, alone and joined by their transports.      *)
(*                                                                         *)
(* JavaScript values are encoded as records [ty, v]: ty is the run-time    *)
(* type tag and v a sequence of strings (the string itself, the elements   *)
(* of an array, the message of an Error).  A property that is not present  *)
(* on an object is the value Absent.                                       *)
(***************************************************************************)
EXTENDS Integers, Sequences, FiniteSets, TLC

\* ------------------------------------------------------------------ bounds
\* Number of callApi calls a behaviour may make.
MaxRequests == 2
\* Date.now() takes the values 0..MaxClock.
MaxClock == 1
\* The React state of a reducer engine is a number modulo StateMod.
StateMod == 2

\* The values Math.random().toString(36).slice(2, 11) may take.
RandSuffixes == {"a", "b"}

\* ------------------------------------------------------------- JS values
Str(s) == [ty |-> "string", v |-> <<s>>]
Arr(elems) == [ty |-> "array", v |-> elems]
Err(msg) == [ty |-> "Error", v |-> <<msg>>]
Undefined == [ty |-> "undefined", v |-> <<>>]
Absent == [ty |-> "absent", v |-> <<>>]

\* String(x) for the values the model throws.
StringOf(x) == x.v[1]

\* utils.ts generateId: `${prefix}_${Date.now()}_${Math.random()...}`.  The
\* clock reading and the random suffix are the caller's inputs.
generateId(prefix, clock, suffix) == prefix \o "_" \o ToString(clock) \o "_" \o suffix

RequestIds == {generateId("req", t, r) : t \in 0..MaxClock, r \in RandSuffixes}

\* ------------------------------------------------------------- messages
\* A value delivered by window.postMessage.  kind is what `typeof` and
\* Array.isArray see of the value itself; the other fields are its
\* properties (Absent when the property is not there).
Msg(kind, type, id, key, value, providerId) ==
  [kind |-> kind, type |-> type, id |-> id, key |-> key, value |-> value,
   providerId |-> providerId]

NoMsg == Msg("none", Absent, Absent, Absent, Absent, Absent)

\* message !== null && message !== undefined && typeof message === 'object'
IsObjectLike(m) == m.kind \in {"object", "array"}
\* 'f' in message
HasType(m, t) == m.type # Absent /\ m.type = Str(t)

isViewApiResponse(m) ==
  /\ IsObjectLike(m)
  /\ HasType(m, "response")
  /\ m.id # Absent
  /\ m.id.ty = "string"

isViewApiError(m) ==
  /\ IsObjectLike(m)
  /\ HasType(m, "error")
  /\ m.id # Absent
  /\ m.id.ty = "string"
  /\ m.value # Absent
  /\ m.value.ty = "string"

isViewApiEvent(m) ==
  /\ IsObjectLike(m)
  /\ HasType(m, "event")
  /\ m.key # Absent
  /\ m.key.ty = "string"
  /\ m.value # Absent
  /\ m.value.ty = "array"

\* ------------------------------------------------------ DeferredPromise
\* client/types.ts: the promise (state, value), the private settled flag and
\* the timeout slot.  timeoutHandle is "undefined" or "set".
NewDeferred(key) ==
  [key |-> key, settled |-> FALSE, state |-> "pending", value |-> Undefined,
   timeoutHandle |-> "undefined"]

\* this.resolve: guarded by the settled flag.
Resolve(d, value) ==
  IF ~d.settled
    THEN [d EXCEPT !.settled = TRUE, !.state = "fulfilled", !.value = value]
    ELSE d

\* reason instanceof Error ? reason : new Error(String(reason))
ToError(reason) == IF reason.ty = "Error" THEN reason ELSE Err(StringOf(reason))

\* this.reject: guarded by the settled flag, the reason coerced to an Error.
Reject(d, reason) ==
  IF ~d.settled
    THEN [d EXCEPT !.settled = TRUE, !.state = "rejected", !.value = ToError(reason)]
    ELSE d

ClearTimeout(d) ==
  IF d.timeoutHandle # "undefined" THEN [d EXCEPT !.timeoutHandle = "undefined"] ELSE d

MarkSettled(d) == [d EXCEPT !.settled = TRUE]

\* ------------------------------------------------- client engine: state
ClientKeys == {"fetchData"}
EventKeys == {"onData", "onOther"}
Callbacks == {"cb1", "cb2"}
EventArgs == <<"x", "y">>

\* Webview side (WebviewProvider).
VARIABLES
  now,              \* Date.now()
  phase,            \* "rendered" (effects not yet run), "mounted", "unmounted"
  pendingRequests,  \* the Map id -> DeferredPromise, as id -> index in deferreds
  deferreds,        \* the DeferredPromise created by the i-th callApi
  requests,         \* the i-th request envelope and what postMessage did with it
  unhandled,        \* calls whose postMessage promise rejected with no handler
  listeners,        \* the Map event key -> Set of callbacks (insertion order)
  last              \* the last operation: its inputs and what it did

\* Host side (WebviewApiProvider).
VARIABLES
  connectedViews,   \* the Map id -> {view, context}
  subscriptions,    \* the onDidDispose callbacks registered: <<view, id>>
  disposedViews,    \* the views that have reported disposal
  postPromises,     \* ids whose postMessage returned a thenable that is going to reject
        \* ids pushed onto a failedViews array after its pruning loop
  disposeCalled,    \* dispose() has been called on the provider
  failedOnce,       \* ids: a send to the view registered under the id failed
                    \* (threw, or its thenable is to reject) and no view was
                    \* stored under the id since
  hlast             \* the last host operation: its inputs and what it did

\* Webview side (useVscodeState), one entry per hook instance.
VARIABLES
  engines,          \* instance -> the hook's arguments, its React state and its phase
  elast             \* the last operation on the hooks: its inputs and what it did

\* Host side (BaseWebviewViewProvider).
VARIABLES
  currentView,      \* this._view ("none": undefined)
  providerViews,    \* view -> "new", "listening" (its message listener is
                    \* attached) or "disposed"
  delegateCalls,    \* the listener invocations suspended at `await delegateFn(...)`
  plast             \* the last operation of the provider: its inputs and what it did

\* The pure functions (guards, log sanitiser): the last application.
VARIABLES
  glast,            \* the value the guards were applied to and what each returned
  loglast           \* the payload logged last and what the sink was given

\* Host side (the RPC request dispatcher) and the transport between the
\* webview's RPC client and the host.
VARIABLES
  dlast,            \* the last message the dispatcher was given and what it did
  replies           \* request number -> the reply the host sent for it and
                    \* whether the webview has received it

\* The transport between the hooks of the webviews and the host's provider.
VARIABLES
  actions           \* the actions dispatched through the actors, each with how
                    \* far it has got and the patch produced for it

rpcVars ==
  <<phase, pendingRequests, deferreds, requests, unhandled, listeners, last>>
registryVars ==
  <<connectedViews, subscriptions, disposedViews, postPromises, failedOnce,
    disposeCalled, hlast>>
reducerVars == <<engines, elast>>
providerVars == <<currentView, providerViews, delegateCalls, plast>>
\* The state of the components that take no part in the three above.
checkVars == <<glast, loglast>>
dispatcherVars == <<dlast, replies>>
actionVars == <<actions>>
serviceVars == <<providerVars, checkVars, dispatcherVars, actionVars>>
\* What the operations of the view registry leave alone.
clientOnlyVars == <<rpcVars, reducerVars, serviceVars>>
\* What the operations of the WebviewProvider leave alone.
hostOnlyVars == <<registryVars, reducerVars, serviceVars>>
vars == <<now, clientOnlyVars, hostOnlyVars>>

\* op: the operation; msg: the message delivered; idx: the callApi call it
\* concerns (0: none); outcome: what the transport or the callbacks did;
\* thrown: the value postMessage threw; invoked: the callbacks run, in order,
\* each with its arguments; throwers: the callbacks that throw when called;
\* escaped: an exception left the handler.
LastEvent(msg, throwers, invoked, escaped) ==
  [op |-> "message", msg |-> msg, idx |-> 0, outcome |-> "event", thrown |-> Undefined,
   invoked |-> invoked, throwers |-> throwers, escaped |-> escaped]

Last(op, msg, idx, outcome, thrown, invoked, escaped) ==
  [op |-> op, msg |-> msg, idx |-> idx, outcome |-> outcome, thrown |-> thrown,
   invoked |-> invoked, throwers |-> {}, escaped |-> escaped]

\* Map.delete
MapDelete(map, k) == [x \in DOMAIN map \ {k} |-> map[x]]
\* Map.set
MapSet(map, k, val) == [x \in DOMAIN map \cup {k} |-> IF x = k THEN val ELSE map[x]]

SeqRange(s) == {s[i] : i \in 1..Len(s)}

\* ---------------------------------------------------------- callApi
\* What vscodeApi.postMessage(request) does: it returns a thenable, or it
\* throws an Error or a value that is not an Error.
PostOutcomes ==
  { [kind |-> "thenable", thrown |-> Undefined],
    [kind |-> "throw", thrown |-> Err("send failed")],
    [kind |-> "throw", thrown |-> Str("not cloneable")] }

NewRequest(id, key, outcome) ==
  [id |-> id, key |-> key,
   send |-> IF outcome.kind = "throw" THEN "threw" ELSE "pending"]

\* The catch block of callApi (lines 65-70).
CallApiCatch(pending, d, id, error) ==
  [table |-> MapDelete(pending, id), deferred |-> Reject(ClearTimeout(d), error)]

callApi(key, suffix, outcome) ==
  LET id == generateId("req", now, suffix)
      i == Len(deferreds) + 1
      d == NewDeferred(key)
      stored == MapSet(pendingRequests, id, i)
      caught == CallApiCatch(stored, d, id, outcome.thrown)
  IN /\ Len(deferreds) < MaxRequests
     /\ requests' = Append(requests, NewRequest(id, key, outcome))
     /\ IF outcome.kind = "throw"
          THEN /\ pendingRequests' = caught.table
               /\ deferreds' = Append(deferreds, caught.deferred)
          ELSE /\ pendingRequests' = stored
               /\ deferreds' = Append(deferreds, d)
     /\ last' = Last("callApi", NoMsg, i, outcome.kind, outcome.thrown, <<>>, FALSE)
     /\ UNCHANGED <<now, phase, unhandled, listeners, hostOnlyVars>>

\* The api proxy (lines 77-85): its get trap returns, for any property name,
\* a function that passes the name to callApi.  The operations of the
\* ClientCalls interface are types only; nothing of them exists at run time.
api(key, suffix, outcome) == callApi(key, suffix, outcome)

\* The thenable returned by postMessage settles.  callApi discards the
\* thenable (line 64), so no handler is attached: a rejection is unhandled
\* and the DeferredPromise and the table are not touched.
SendSettles(i, ok) ==
  /\ i \in 1..Len(requests)
  /\ requests[i].send = "pending"
  /\ requests' = [requests EXCEPT ![i].send = IF ok THEN "fulfilled" ELSE "rejected"]
  /\ unhandled' = IF ok THEN unhandled ELSE unhandled \cup {i}
  /\ last' = Last("sendSettles", NoMsg, i, IF ok THEN "fulfilled" ELSE "rejected",
                  Undefined, <<>>, FALSE)
  /\ UNCHANGED <<now, phase, pendingRequests, deferreds, listeners, hostOnlyVars>>

\* ------------------------------------------- addListener / removeListener
\* Set.add: a callback already in the set keeps its place.
SetAdd(s, cb) == IF cb \in SeqRange(s) THEN s ELSE Append(s, cb)
\* Set.delete
SetDelete(s, cb) == SelectSeq(s, LAMBDA x : x # cb)

addListener(key, cb) ==
  LET created == IF key \in DOMAIN listeners THEN listeners
                 ELSE MapSet(listeners, key, <<>>)
  IN /\ listeners' = [created EXCEPT ![key] = SetAdd(created[key], cb)]
     /\ last' = Last("addListener", NoMsg, 0, key, Undefined, <<cb>>, FALSE)
     /\ UNCHANGED <<now, phase, pendingRequests, deferreds, requests, unhandled, hostOnlyVars>>

removeListener(key, cb) ==
  /\ listeners' = IF key \in DOMAIN listeners
                    THEN [listeners EXCEPT ![key] = SetDelete(listeners[key], cb)]
                    ELSE listeners
  /\ last' = Last("removeListener", NoMsg, 0, key, Undefined, <<cb>>, FALSE)
  /\ UNCHANGED <<now, phase, pendingRequests, deferreds, requests, unhandled, hostOnlyVars>>

\* --------------------------------------------------------- handleMessage
\* message.value of a response: undefined when the property is absent.
ValueOf(x) == IF x = Absent THEN Undefined ELSE x

\* The loop body without its try/catch: a throwing callback ends the dispatch.
InvokeCallbackNoCatch(acc, cb, args, throwers) ==
  IF acc.escaped THEN acc
  ELSE [invoked |-> Append(acc.invoked, <<cb, args>>), escaped |-> cb \in throwers]

\* One iteration of `for (const callback of callbacks)`: the call is inside
\* try/catch, so a callback that throws leaves the loop running.
InvokeCallback(acc, cb, args, throwers) ==
  IF acc.escaped THEN acc
  ELSE [invoked |-> Append(acc.invoked, <<cb, args>>), escaped |-> FALSE]

RECURSIVE RunCallbacks(_, _, _, _)
RunCallbacks(acc, cbs, args, throwers) ==
  IF cbs = <<>> THEN acc
  ELSE RunCallbacks(InvokeCallback(acc, Head(cbs), args, throwers), Tail(cbs), args,
                    throwers)

\* The response branch without pendingRequests.current.delete(message.id).
HandleResponseNoDelete(m) ==
  LET id == StringOf(m.id) IN
  IF id \in DOMAIN pendingRequests
    THEN [table |-> pendingRequests,
          promises |-> [deferreds EXCEPT ![pendingRequests[id]] =
                          Resolve(ClearTimeout(@), ValueOf(m.value))],
          escaped |-> FALSE]
    ELSE [table |-> pendingRequests, promises |-> deferreds, escaped |-> FALSE]

\* The response branch (lines 113-119): what it leaves of the table and of
\* the deferred promises, and whether an exception leaves it.
HandleResponse(m) ==
  LET id == StringOf(m.id) IN
  IF id \in DOMAIN pendingRequests
    THEN [table |-> MapDelete(pendingRequests, id),
          promises |-> [deferreds EXCEPT ![pendingRequests[id]] =
                          Resolve(ClearTimeout(@), ValueOf(m.value))],
          escaped |-> FALSE]
    ELSE [table |-> pendingRequests, promises |-> deferreds, escaped |-> FALSE]

\* The error branch without its `if (deferred)` guard: for an unknown id,
\* deferred.clearTimeout() is called on undefined and throws.
HandleErrorNoGuard(m) ==
  LET id == StringOf(m.id) IN
  IF id \in DOMAIN pendingRequests
    THEN [table |-> MapDelete(pendingRequests, id),
          promises |-> [deferreds EXCEPT ![pendingRequests[id]] =
                          Reject(ClearTimeout(@), Err(StringOf(m.value)))],
          escaped |-> FALSE]
    ELSE [table |-> pendingRequests, promises |-> deferreds, escaped |-> TRUE]

\* The error branch (lines 120-130).
HandleError(m) ==
  LET id == StringOf(m.id) IN
  IF id \in DOMAIN pendingRequests
    THEN [table |-> MapDelete(pendingRequests, id),
          promises |-> [deferreds EXCEPT ![pendingRequests[id]] =
                          Reject(ClearTimeout(@), Err(StringOf(m.value)))],
          escaped |-> FALSE]
    ELSE [table |-> pendingRequests, promises |-> deferreds, escaped |-> FALSE]

\* The event branch (lines 131-142).
HandleEvent(m, throwers) ==
  LET key == StringOf(m.key)
      callbacks == IF key \in DOMAIN listeners THEN listeners[key] ELSE <<>>
  IN RunCallbacks([invoked |-> <<>>, escaped |-> FALSE], callbacks, m.value.v, throwers)

handleMessage(m, throwers) ==
  IF isViewApiResponse(m) THEN
    /\ pendingRequests' = HandleResponse(m).table
    /\ deferreds' = HandleResponse(m).promises
    /\ last' = Last("message", m, 0, "response", Undefined, <<>>, HandleResponse(m).escaped)
  ELSE IF isViewApiError(m) THEN
    /\ pendingRequests' = HandleError(m).table
    /\ deferreds' = HandleError(m).promises
    /\ last' = Last("message", m, 0, "error", Undefined, <<>>, HandleError(m).escaped)
  ELSE IF isViewApiEvent(m) THEN
    /\ last' = LastEvent(m, throwers, HandleEvent(m, throwers).invoked,
                         HandleEvent(m, throwers).escaped)
    /\ UNCHANGED <<pendingRequests, deferreds>>
  ELSE IF IsObjectLike(m) /\ m.providerId # Absent THEN
    /\ last' = Last("message", m, 0, "provider", Undefined, <<>>, FALSE)
    /\ UNCHANGED <<pendingRequests, deferreds>>
  ELSE
    /\ last' = Last("message", m, 0, "legacy", Undefined, <<>>, FALSE)
    /\ UNCHANGED <<pendingRequests, deferreds>>

\* ------------------------------------------------- the component's life
\* The two effects run after the first render: the message listener is
\* added to window (line 152); the cleanup effect captures the table.
Mount ==
  /\ phase = "rendered"
  /\ phase' = "mounted"
  /\ last' = Last("mount", NoMsg, 0, "", Undefined, <<>>, FALSE)
  /\ UNCHANGED <<now, pendingRequests, deferreds, requests, unhandled, listeners, hostOnlyVars>>

\* The cleanup of the second effect (lines 164-172), applied to one entry.
UnmountDeferred(d) == MarkSettled(Reject(ClearTimeout(d), Err("WebviewProvider unmounted")))

\* Unmount: both cleanups run, the listener is removed from window (line 155)
\* and every deferred promise of the table is rejected and the table cleared.
Unmount ==
  LET held == {pendingRequests[id] : id \in DOMAIN pendingRequests} IN
  /\ phase = "mounted"
  /\ phase' = "unmounted"
  /\ deferreds' = [i \in 1..Len(deferreds) |->
                     IF i \in held THEN UnmountDeferred(deferreds[i]) ELSE deferreds[i]]
  /\ pendingRequests' = << >>
  /\ last' = Last("unmount", NoMsg, 0, "", Undefined, <<>>, FALSE)
  /\ UNCHANGED <<now, requests, unhandled, listeners, hostOnlyVars>>

\* The values window's 'message' event may carry.  OtherId is an id this
\* client never generates (a reply to another client instance).
OtherId == "req_9_z"
InboundIds == RequestIds \cup {OtherId}

ResponseMessages ==
  {Msg("object", Str("response"), Str(id), Absent, val, Absent) :
     id \in InboundIds, val \in {Absent, Str("v1")}}

ErrorMessages ==
  {Msg("object", Str("error"), Str(id), Absent, Str("boom"), Absent) : id \in InboundIds}

EventMessages ==
  {Msg("object", Str("event"), Absent, Str(key), Arr(EventArgs), Absent) :
     key \in EventKeys}

\* A patch of the reducer engine, an error envelope without its value, null.
OtherMessages ==
  { Msg("object", Str("patch"), Absent, Str("increment"), Absent, Str("p")),
    Msg("object", Str("error"), Str(OtherId), Absent, Absent, Absent),
    Msg("null", Absent, Absent, Absent, Absent, Absent) }

\* window dispatches a 'message' event: handleMessage runs while it is
\* registered (between the effect and its cleanup).
WindowMessage(m, throwers) ==
  /\ IF phase = "mounted"
       THEN handleMessage(m, throwers)
       ELSE /\ last' = Last("message", m, 0, "nolistener", Undefined, <<>>, FALSE)
            /\ UNCHANGED <<pendingRequests, deferreds>>
  /\ UNCHANGED <<now, phase, requests, unhandled, listeners, hostOnlyVars>>

\* Date.now() advances.
Tick ==
  /\ now < MaxClock
  /\ now' = now + 1
  /\ last' = Last("tick", NoMsg, 0, "", Undefined, <<>>, FALSE)
  /\ UNCHANGED <<phase, pendingRequests, deferreds, requests, unhandled, listeners, hostOnlyVars>>

ClientInit ==
  /\ now = 0
  /\ phase = "rendered"
  /\ pendingRequests = << >>
  /\ deferreds = << >>
  /\ requests = << >>
  /\ unhandled = {}
  /\ listeners = << >>
  /\ last = Last("init", NoMsg, 0, "", Undefined, <<>>, FALSE)

\* The RPC engine: requests, replies of every kind in any order, teardown.
ClientNext ==
  \/ \E key \in ClientKeys, suffix \in RandSuffixes, outcome \in PostOutcomes :
       callApi(key, suffix, outcome)
  \/ \E m \in ResponseMessages \cup ErrorMessages \cup OtherMessages :
       WindowMessage(m, {})
  \/ Mount
  \/ Unmount


\* The RPC engine with the transport's asynchronous acknowledgement; time
\* passes between requests.
SendNext ==
  \/ \E key \in ClientKeys, suffix \in RandSuffixes, outcome \in PostOutcomes :
       callApi(key, suffix, outcome)
  \/ \E i \in 1..MaxRequests, ok \in BOOLEAN : SendSettles(i, ok)
  \/ \E m \in ErrorMessages : WindowMessage(m, {})
  \/ Mount
  \/ Unmount
  \/ Tick


\* A name that is no operation of the ClientCalls interface.
UnknownApiKey == "notAnOperation"

\* Calls through the api proxy, with names of the interface and others.
ApiNext ==
  \/ \E key \in ClientKeys \cup {UnknownApiKey}, suffix \in RandSuffixes,
        outcome \in PostOutcomes :
       api(key, suffix, outcome)
  \/ \E m \in ErrorMessages : WindowMessage(m, {})
  \/ Mount
  \/ Unmount

\* The event side: listeners come and go, events and replies arrive.
EventNext ==
  \/ \E key \in ClientKeys, suffix \in RandSuffixes,
        outcome \in {o \in PostOutcomes : o.kind = "thenable"} :
       callApi(key, suffix, outcome)
  \/ \E key \in EventKeys, cb \in Callbacks : addListener(key, cb)
  \/ \E key \in EventKeys, cb \in Callbacks : removeListener(key, cb)
  \/ \E m \in EventMessages, throwers \in SUBSET Callbacks : WindowMessage(m, throwers)
  \/ \E m \in ErrorMessages : WindowMessage(m, {})
  \/ Mount



\* Envelopes of every type that also carry a providerId property, as a host
\* that serves both paradigms over one transport may send them.
TaggedMessages ==
  {Msg("object", Str("response"), Str(id), Absent, Str("v1"), Str("p1")) : id \in InboundIds}
  \cup {Msg("object", Str("error"), Str(id), Absent, Str("boom"), Str("p1")) : id \in InboundIds}
  \cup {Msg("object", Str("event"), Absent, Str(key), Arr(EventArgs), Str("p1")) :
          key \in EventKeys}
  \cup {Msg("object", Str("patch"), Absent, Str("increment"), Absent, Str("p1")),
        Msg("object", Absent, Absent, Absent, Absent, Str("p1"))}

\* The RPC engine on a window that also receives envelopes with a providerId.
RoutingNext ==
  \/ \E key \in ClientKeys, suffix \in RandSuffixes,
        outcome \in {o \in PostOutcomes : o.kind = "thenable"} :
       callApi(key, suffix, outcome)
  \/ \E key \in EventKeys, cb \in Callbacks : addListener(key, cb)
  \/ \E m \in TaggedMessages : WindowMessage(m, {})
  \/ Mount

\* ------------------------------------------------ host: WebviewApiProvider
WebviewKeys == {"view-a", "view-b"}
\* The vscode.WebviewView objects (the transports).
Views == {"w1", "w2"}
HostEventKeys == {"onDataUpdate"}
\* view.viewType
ViewTypeOf(view) == "type-" \o view

\* What connectedView.view.webview.postMessage(event) does on one call: it
\* returns a thenable that resolves or one that rejects, it throws, or it
\* returns a value that is no thenable ("sync": a boolean or nothing).
SendOutcomes == {"resolve", "reject", "throw", "sync"}

\* op: the operation; id, view: its arguments; attempted: the ids whose
\* transport postMessage was called on; outcomes: what each of these calls
\* did; threw: the operation threw; subscribed: the operation called
\* view.onDidDispose; prev: "dispose" on a triggerEvent that directly
\* follows dispose(), "" otherwise.
HLastRecord(op, id, view, attempted, outcomes, threw, subscribed, prev) ==
  [op |-> op, id |-> id, view |-> view, attempted |-> attempted, outcomes |-> outcomes,
   threw |-> threw, subscribed |-> subscribed, prev |-> prev]

HLast(op, id, view, attempted, outcomes, threw) ==
  HLastRecord(op, id, view, attempted, outcomes, threw, FALSE,
              IF op = "triggerEvent" /\ hlast.op = "dispose" THEN "dispose" ELSE "")

\* private readonly disposables: nothing is ever pushed onto it.
disposables == << >>

getConnectedViewCount == Cardinality(DOMAIN connectedViews)

\* The try/catch around one postMessage call (lines 38-63): does this
\* iteration push the id onto failedViews?  A value without .then makes
\* postPromise.then throw inside the try.
SyncFailure(outcome) == outcome \in {"throw", "sync"}

\* The pruning loop (lines 67-78) over the array as it is when the loop runs.
Prune(views, failed) == [x \in DOMAIN views \ failed |-> views[x]]

triggerEvent(key, outcomes) ==
  LET ids == DOMAIN connectedViews
      failedViews == {id \in ids : SyncFailure(outcomes[id])}
  IN /\ postPromises' = postPromises \cup
          {[id |-> id, view |-> connectedViews[id].view, fate |-> outcomes[id]] :
             id \in {x \in ids : outcomes[x] \in {"resolve", "reject"}}}
     /\ connectedViews' = Prune(connectedViews, failedViews)
     /\ failedOnce' = failedOnce \cup {id \in ids : outcomes[id] \in {"throw", "reject"}}
     /\ hlast' = HLast("triggerEvent", key, "", ids, outcomes, FALSE)
     /\ UNCHANGED <<now, subscriptions, disposedViews, disposeCalled, clientOnlyVars>>

\* A thenable returned by postMessage rejects after triggerEvent returned:
\* the rejection handler (lines 46-53) logs and pushes the id onto that
\* call's failedViews array, a local that nothing reads once the pruning loop
\* has run; the Map is not touched.  (The fulfilment handler, lines 43-45, is
\* empty: a thenable that resolves leaves nothing to do.)
PostRejects(id) ==
  /\ id \in postPromises
  /\ postPromises' = postPromises \ {id}
  /\ hlast' = HLast("postRejects", "", "", {}, << >>, FALSE)
  /\ UNCHANGED <<now, connectedViews, subscriptions, disposedViews, disposeCalled, failedOnce,
                 clientOnlyVars>>

\* A registerView whose guard never fires.
AlreadyRegisteredNever(id, view) == FALSE

\* The guard of registerView (line 91).
AlreadyRegistered(id, view) ==
  id \in DOMAIN connectedViews /\ view = connectedViews[id].view

registerView(id, view, suffix) ==
  LET context == [viewId |-> id, viewType |-> ViewTypeOf(view), timestamp |-> now,
                  sessionId |-> generateId("session", now, suffix)]
  IN /\ view \notin disposedViews
     /\ IF AlreadyRegistered(id, view)
          THEN UNCHANGED <<connectedViews, subscriptions, failedOnce>>
          ELSE /\ connectedViews' = MapSet(connectedViews, id,
                                           [view |-> view, context |-> context])
               /\ subscriptions' = subscriptions \cup {<<view, id>>}
               /\ failedOnce' = failedOnce \ {id}
     /\ hlast' = HLastRecord("registerView", id, view, {}, << >>, FALSE,
                             ~AlreadyRegistered(id, view), "")
     /\ UNCHANGED <<now, disposedViews, disposeCalled, postPromises, clientOnlyVars>>

\* The view fires onDidDispose: every callback registered on it runs
\* (lines 107-110), each deleting the id it was registered for.
ViewDisposed(view) ==
  LET ids == {sub[2] : sub \in {x \in subscriptions : x[1] = view}} IN
  /\ view \notin disposedViews
  /\ disposedViews' = disposedViews \cup {view}
  /\ connectedViews' = [x \in DOMAIN connectedViews \ ids |-> connectedViews[x]]
  /\ subscriptions' = {x \in subscriptions : x[1] # view}
  /\ hlast' = HLast("viewDisposed", "", view, {}, << >>, FALSE)
  /\ UNCHANGED <<now, postPromises, failedOnce, disposeCalled, clientOnlyVars>>

\* A dispose() that leaves the Map as it is.
disposeNoClear ==
  /\ disposeCalled' = TRUE
  /\ hlast' = HLast("dispose", "", "", {}, << >>, FALSE)
  /\ UNCHANGED <<now, connectedViews, subscriptions, disposedViews, postPromises,
                 failedOnce, clientOnlyVars>>

\* dispose(): the disposables (none) are disposed and the Map is cleared.
dispose ==
  /\ connectedViews' = << >>
  /\ disposeCalled' = TRUE
  /\ hlast' = HLast("dispose", "", "", {}, << >>, FALSE)
  /\ UNCHANGED <<now, subscriptions, disposedViews, postPromises, failedOnce,
                 clientOnlyVars>>

HostInit ==
  /\ now = 0
  /\ connectedViews = << >>
  /\ subscriptions = {}
  /\ disposedViews = {}
  /\ postPromises = {}
  /\ failedOnce = {}
  /\ disposeCalled = FALSE
  /\ hlast = HLastRecord("init", "", "", {}, << >>, FALSE, FALSE, "")

HostNext ==
  \/ \E key \in HostEventKeys, outcomes \in [DOMAIN connectedViews -> SendOutcomes] :
       triggerEvent(key, outcomes)
  \/ \E id \in postPromises : PostRejects(id)
  \/ \E id \in WebviewKeys, view \in Views, suffix \in {"a"} :
       registerView(id, view, suffix)
  \/ \E view \in Views : ViewDisposed(view)
  \/ dispose

\* ------------------------------------------- webview: useVscodeState
\* types/reducer.ts
PATCH == "patch"
ACT == "act"

\* Property keys.  "@@tag" stands for a symbol key, the others are strings.
PropKeys ==
  {"increment", "multiplyBy", "label", "toString", "hidden", "__proto__", "constructor",
   "prototype", "missing", "@@tag"}
IsSymbol(k) == k = "@@tag"
\* String(key)
StringOfKey(k) == IF IsSymbol(k) THEN "Symbol(tag)" ELSE k

\* A reducer map gives every key what the object holds under it: "ownFn" (an
\* own enumerable function), "ownFnHidden" (an own non-enumerable function),
\* "ownValue" (an own property that is no function), "inheritedFn" (a
\* function found on the prototype chain only), "absent".
PlainMap ==
  [k \in PropKeys |->
     CASE k \in {"increment", "multiplyBy"} -> "ownFn"
       [] k = "label" -> "ownValue"
       [] k \in {"toString", "constructor"} -> "inheritedFn"
       [] OTHER -> "absent"]
\* A map that defines functions under the names of Object.prototype too.
HostileMap ==
  [k \in PropKeys |->
     CASE k \in {"increment", "multiplyBy", "__proto__", "constructor", "prototype", "@@tag"}
            -> "ownFn"
       [] k = "hidden" -> "ownFnHidden"
       [] k = "label" -> "ownValue"
       [] k = "toString" -> "inheritedFn"
       [] OTHER -> "absent"]

\* Object.prototype.hasOwnProperty.call(obj, prop)
HasOwn(obj, prop) == obj[prop] \in {"ownFn", "ownFnHidden", "ownValue"}
\* typeof obj[prop] === 'function'
IsFunction(obj, prop) == obj[prop] \in {"ownFn", "ownFnHidden", "inheritedFn"}
\* A test that accepts inherited functions too.
isFnKeyInherited(prop, obj) == IsFunction(obj, prop)

\* ipcReducer.ts isFnKey
isFnKey(prop, obj) == HasOwn(obj, prop) /\ IsFunction(obj, prop)
\* Object.keys(obj): the own enumerable string keys.
ObjectKeys(obj) == {k \in PropKeys : obj[k] \in {"ownFn", "ownValue"} /\ ~IsSymbol(k)}

\* A filter that blocks no name.
dangerousKeysNone == {}

dangerousKeys == {"__proto__", "constructor", "prototype"}
\* Keys taken as valid without the filter on the dangerous names.
validKeysNoFilter(postReducer) == ObjectKeys(postReducer)

\* useMemo(() => new Set(Object.keys(postReducer).filter(...)))
validKeys(postReducer) == ObjectKeys(postReducer) \ dangerousKeys

\* The reducers a map binds to its keys (those of the hook's test suite):
\* increment adds one, multiplyBy multiplies by the patch; any other function
\* of a map returns the state it was given.
Reduce(key, prev, patch) ==
  CASE key = "increment" -> (prev + 1) % StateMod
    [] key = "multiplyBy" -> (prev * patch) % StateMod
    [] OTHER -> prev

\* A value delivered by window.postMessage to the hook's handler.  kind is
\* what typeof sees of the value; has: the properties it owns; the other
\* fields are the properties' values.
PMsg(kind, has, type, providerId, key, patch) ==
  [kind |-> kind, has |-> has, type |-> type, providerId |-> providerId, key |-> key,
   patch |-> patch]
NoPMsg == PMsg("none", {}, "", Undefined, "missing", 0)
PatchFields == {"providerId", "type", "key", "patch"}

\* A filter that does not compare the provider id.
isMyPatchMessageAnyProvider(message, id) ==
  /\ message.kind \in {"object", "array"}
  /\ PatchFields \subseteq message.has
  /\ message.type = PATCH
  /\ message.providerId.ty = "string"

isMyPatchMessage(message, id) ==
  /\ message.kind \in {"object", "array"}
  /\ PatchFields \subseteq message.has
  /\ message.type = PATCH
  /\ message.providerId.ty = "string"
  /\ StringOf(message.providerId) = id

\* The condition of the handler (lines 43-47).
PatchKeyAccepted(postReducer, key) ==
  /\ StringOfKey(key) \in validKeys(postReducer)
  /\ HasOwn(postReducer, key)
  /\ IsFunction(postReducer, key)

\* One hook instance.  state: the React state.  React applies the updater
\* given to setState before the next event is dispatched, so the state a
\* later operation finds is the one the updater returned.
Engine(ph, providerId, postReducer, vscode, state) ==
  [phase |-> ph, providerId |-> providerId, postReducer |-> postReducer, vscode |-> vscode,
   state |-> state]
NoEngine == Engine("none", "", PlainMap, "undefined", 0)

Instances == {1, 2}
ProviderIds == {"p1", "p2"}
Patches == {0, 1}

\* op: the operation; inst: the instance it was called on; msg: the message
\* delivered; key: the property accessed; args: the arguments the callable
\* was called with; threw: instance -> the error its code threw ("" when
\* none); accepted: the instances whose handler called setState; sent: the
\* envelopes handed to vscode.postMessage.
ELastCall(op, inst, key, args, threw, sent) ==
  [op |-> op, inst |-> inst, msg |-> NoPMsg, key |-> key, args |-> args, threw |-> threw,
   accepted |-> {}, sent |-> sent]

ELast(op, inst, msg, key, threw, accepted, sent) ==
  [op |-> op, inst |-> inst, msg |-> msg, key |-> key, args |-> << >>, threw |-> threw,
   accepted |-> accepted, sent |-> sent]
NoThrow == [i \in Instances |-> ""]

\* The first render of a component that calls the hook (lines 31-37): the
\* state is the initial state; the effect has not run yet.
useVscodeState(i, providerId, postReducer, vscode, initialState) ==
  /\ engines[i].phase = "none"
  /\ engines' = [engines EXCEPT ![i] = Engine("rendered", providerId, postReducer, vscode,
                                               initialState)]
  /\ elast' = ELast("useVscodeState", i, NoPMsg, "missing", NoThrow, {}, << >>)
  /\ UNCHANGED <<now, rpcVars, registryVars, serviceVars>>

\* The effect runs (line 55): the handler listens on window.
EngineMount(i) ==
  /\ engines[i].phase = "rendered"
  /\ engines' = [engines EXCEPT ![i].phase = "mounted"]
  /\ elast' = ELast("mount", i, NoPMsg, "missing", NoThrow, {}, << >>)
  /\ UNCHANGED <<now, rpcVars, registryVars, serviceVars>>

\* The effect's cleanup (lines 56-58) on unmount.
EngineUnmount(i) ==
  /\ engines[i].phase = "mounted"
  /\ engines' = [engines EXCEPT ![i].phase = "unmounted"]
  /\ elast' = ELast("unmount", i, NoPMsg, "missing", NoThrow, {}, << >>)
  /\ UNCHANGED <<now, rpcVars, registryVars, serviceVars>>

\* What the handler (lines 40-54) of one instance does with a message:
\* "ignored", "accepted" (setState is called) or "threw" (line 51).
HandlerOutcome(e, data) ==
  IF e.phase = "mounted" /\ isMyPatchMessage(data, e.providerId)
    THEN IF PatchKeyAccepted(e.postReducer, data.key) THEN "accepted" ELSE "threw"
    ELSE "ignored"

\* An update computed from the initial state instead of the previous one.
HandlerEffectStale(e, data) ==
  IF HandlerOutcome(e, data) = "accepted"
    THEN [e EXCEPT !.state = Reduce(data.key, 0, data.patch)]
    ELSE e

\* setState((prev) => patchFn(prev, data.patch)) (lines 48-49).
HandlerEffect(e, data) ==
  IF HandlerOutcome(e, data) = "accepted"
    THEN [e EXCEPT !.state = Reduce(data.key, e.state, data.patch)]
    ELSE e

\* window dispatches one message event: the handler of every instance runs;
\* an exception thrown by one listener does not keep the others from running.
EngineMessage(data) ==
  /\ engines' = [i \in Instances |-> HandlerEffect(engines[i], data)]
  /\ elast' = ELast("message", 0, data, "missing",
                     [i \in Instances |->
                        IF HandlerOutcome(engines[i], data) = "threw"
                          THEN "NoFunctionForPatch" ELSE ""],
                     {i \in Instances : HandlerOutcome(engines[i], data) = "accepted"},
                     << >>)
  /\ UNCHANGED <<now, rpcVars, registryVars, serviceVars>>

\* The get trap of the actor proxy (lines 80-89): the error it throws, or
\* "" when it returns the callable.  (A trap is only ever given a string or
\* a symbol, so the TypeError of lines 81-83 is never thrown.)
ActorGetError(postReducer, prop) ==
  IF ~IsSymbol(prop) /\ prop \in dangerousKeys THEN "DangerousKey"
  ELSE IF ~isFnKey(prop, postReducer) THEN "UnknownAction"
  ELSE ""

\* A postAction that sends nothing.
postActionNoSend(e, key, params) == [threw |-> "", sent |-> << >>]

\* postAction (lines 61-76) called by the callable (lines 90-100): the error
\* it throws and the envelopes it hands to vscode.postMessage.
postAction(e, key, params) ==
  IF e.vscode = "undefined"
    THEN [threw |-> "VscodeUndefined", sent |-> << >>]
    ELSE [threw |-> "",
          sent |-> <<[type |-> ACT, providerId |-> e.providerId, key |-> key,
                      params |-> params]>>]

\* actor[prop] is read and not called.
actorGet(i, prop) ==
  /\ engines[i].phase \in {"rendered", "mounted"}
  /\ elast' = ELast("actorGet", i, NoPMsg, prop,
                     [NoThrow EXCEPT ![i] = ActorGetError(engines[i].postReducer, prop)],
                     {}, << >>)
  /\ UNCHANGED <<now, engines, rpcVars, registryVars, serviceVars>>

\* actor[prop](...args)
actorCall(i, prop, args) ==
  LET e == engines[i]
      getError == ActorGetError(e.postReducer, prop)
      posted == postAction(e, prop, args)
  IN /\ e.phase \in {"rendered", "mounted"}
     /\ elast' = ELastCall("actorCall", i, prop, args,
                            [NoThrow EXCEPT ![i] = IF getError # "" THEN getError
                                                   ELSE posted.threw],
                            IF getError # "" THEN << >> ELSE posted.sent)
     /\ UNCHANGED <<now, engines, rpcVars, registryVars, serviceVars>>

EngineInit ==
  /\ engines = [i \in Instances |-> NoEngine]
  /\ elast = ELast("init", 0, NoPMsg, "missing", NoThrow, {}, << >>)

\* The messages the window delivers to the hooks: well-formed patches for
\* every provider id, key and payload, and values that are no patch.
OtherProviderId == "p9"
WellFormedPatches ==
  {PMsg("object", PatchFields, PATCH, Str(pid), key, patch) :
     pid \in ProviderIds \cup {OtherProviderId}, key \in PropKeys, patch \in Patches}
MalformedPatches ==
  {PMsg("object", PatchFields \ {f}, PATCH, Str("p1"), "increment", 0) : f \in PatchFields}
  \cup {PMsg("object", PatchFields, type, Str("p1"), "increment", 0) : type \in {ACT, "event"}}
  \cup {PMsg("object", PatchFields, PATCH, [ty |-> "number", v |-> <<"p1">>], "increment", 0)}
  \cup {PMsg(kind, {}, "", Undefined, "missing", 0) : kind \in {"null", "string"}}
ActArgs == {<< >>, <<"x", "y">>}
\* The initialState argument of each component.
InitialStateOf(i) == i - 1

\* Two components use the hook: the first with either map, the second with
\* the plain map, either under the first one's provider id or under another
\* id and without a vscode api.
ReducerNext ==
  \/ \E postReducer \in {PlainMap, HostileMap} :
       useVscodeState(1, "p1", postReducer, "api", InitialStateOf(1))
  \/ \E args \in {<<"p1", "api">>, <<"p2", "undefined">>} :
       useVscodeState(2, args[1], PlainMap, args[2], InitialStateOf(2))
  \/ \E i \in Instances : EngineMount(i)
  \/ \E i \in Instances : EngineUnmount(i)
  \/ \E data \in WellFormedPatches \cup MalformedPatches : EngineMessage(data)
  \/ \E i \in Instances, prop \in PropKeys : actorGet(i, prop)
  \/ \E i \in Instances, prop \in PropKeys, args \in ActArgs : actorCall(i, prop, args)

\* ------------------------------------------- values seen by the guards
\* A value received from a transport.  kind: what the tests on the value
\* itself see ("object", "array", "null", "undefined", "string", "number");
\* props: the properties it carries, each with its run-time type, its text
\* when it is a string or a symbol, and its elements when it is an array;
\* ctx: the properties of the object held under `context` and their types.
Prop(ty, s, elems) == [ty |-> ty, s |-> s, elems |-> elems]
StrProp(s) == Prop("string", s, << >>)
NumProp == Prop("number", "", << >>)
ArrProp(elems) == Prop("array", "", elems)
Value(kind, props, ctx) == [kind |-> kind, props |-> props, ctx |-> ctx]
NoCtx == << >>

\* 'f' in message
In(message, f) == f \in DOMAIN message.props
\* typeof message.f, with "array" for what Array.isArray accepts and "null"
\* for null; a property that is not there reads as undefined.
TypeOfProp(message, f) == IF In(message, f) THEN message.props[f].ty ELSE "undefined"
\* message.f === s
PropIs(message, f, s) == TypeOfProp(message, f) = "string" /\ message.props[f].s = s
\* message !== null && message !== undefined && typeof message === 'object'
IsNonNullObject(message) == message.kind \in {"object", "array"}

\* types/ipcReducer.ts isMyActionMessage
isMyActionMessage(message, providerId) ==
  /\ IsNonNullObject(message)
  /\ In(message, "providerId")
  /\ In(message, "type")
  /\ In(message, "key")
  /\ In(message, "params")
  /\ PropIs(message, "type", ACT)
  /\ TypeOfProp(message, "providerId") = "string"
  /\ PropIs(message, "providerId", providerId)
  /\ TypeOfProp(message, "key") \in {"string", "symbol"}
  /\ TypeOfProp(message, "params") = "array"

\* host/WebviewLogger.ts isLogMessage
isLogMessage(value) ==
  IF value.kind # "object" THEN FALSE
  ELSE IF ~In(value, "type") \/ ~PropIs(value, "type", "log") THEN FALSE
  ELSE IF ~In(value, "level") \/ TypeOfProp(value, "level") # "number" THEN FALSE
  ELSE IF ~In(value, "message") \/ TypeOfProp(value, "message") # "string" THEN FALSE
  ELSE TRUE

\* ------------------------------------- host: BaseWebviewViewProvider
\* The number of listener invocations that may be suspended at once.
MaxDelegateCalls == 1

\* The providerId the provider was constructed with.
HostProviderId == "p1"
\* The subclass's webviewActionDelegate: an object literal that defines
\* increment and multiplyBy (and inherits the members of Object.prototype).
webviewActionDelegate == PlainMap

\* What a function returned: the run-time type of the value and, for a
\* number, the number.
JsResult(ty, n) == [ty |-> ty, n |-> n]
UndefinedResult == JsResult("undefined", 0)
\* What the delegates of the subclass may return.
DelegateResults == {JsResult("number", n) : n \in Patches} \cup {UndefinedResult}
\* What the functions every object inherits return when called unbound:
\* Object.prototype.toString() a string, Object(...) an object.
InheritedResult(key) == IF key = "toString" THEN JsResult("string", 0) ELSE JsResult("object", 0)

\* The envelope of lines 140-145.
PatchEnvelope(providerId, key, patch) ==
  [type |-> PATCH, providerId |-> providerId, key |-> key, patch |-> patch]

\* An envelope that is left out when the patch is undefined.
SendPatchIfDefined(view, key, patch) ==
  IF view = "none" \/ patch = UndefinedResult THEN << >>
  ELSE <<[to |-> view, envelope |-> PatchEnvelope(HostProviderId, key, patch)]>>

\* this._view?.webview.postMessage({...}) (lines 140-145): the calls made,
\* each with the view it is made on.
SendPatch(view, key, patch) ==
  IF view = "none" THEN << >>
  ELSE <<[to |-> view, envelope |-> PatchEnvelope(HostProviderId, key, patch)]>>

\* A listener whose first branch does not return.
ListenerPathsNoReturn(message, providerId) ==
  IF isLogMessage(message) THEN {"log", "generic"}
  ELSE IF isMyActionMessage(message, providerId) THEN {"action"}
  ELSE {"generic"}

\* The branches of the message listener (lines 126-149) a message is
\* passed to: handleLogMessage, the action path, handleMessage.
ListenerPaths(message, providerId) ==
  IF isLogMessage(message) THEN {"log"}
  ELSE IF isMyActionMessage(message, providerId) THEN {"action"}
  ELSE {"generic"}

\* typeof this.webviewActionDelegate[message.key] === 'function' (133-134)
DelegateFound(key) == IsFunction(webviewActionDelegate, key)

\* op: the operation; view: the view the message was received on; msg: the
\* message; paths: the branches it was passed to; threw: the error the
\* listener's promise rejected with; invoked: the functions called, each
\* with its arguments; sent: the postMessage calls made, each with the view
\* it was made on; key, result: the action key and what the function
\* returned.
PLast(op, view, msg, paths, threw, invoked, sent, key, result) ==
  [op |-> op, view |-> view, msg |-> msg, paths |-> paths, threw |-> threw,
   invoked |-> invoked, sent |-> sent, key |-> key, result |-> result]
NoValue == Value("none", << >>, NoCtx)

\* resolveWebviewView (lines 105-157) of a provider constructed without an
\* apiProvider, called by the editor with a view it has just created.
resolveWebviewView(webviewView) ==
  /\ providerViews[webviewView] = "new"
  /\ currentView' = webviewView
  /\ providerViews' = [providerViews EXCEPT ![webviewView] = "listening"]
  /\ plast' = PLast("resolveWebviewView", webviewView, NoValue, {}, "", << >>, << >>,
                    "missing", UndefinedResult)
  /\ UNCHANGED <<now, delegateCalls, rpcVars, registryVars, reducerVars, checkVars,
                 dispatcherVars, actionVars>>

\* The view reports its disposal (lines 153-156): the message listener is
\* disposed; onWebviewDispose does nothing.
ProviderViewDisposed(view) ==
  /\ providerViews[view] = "listening"
  /\ providerViews' = [providerViews EXCEPT ![view] = "disposed"]
  /\ plast' = PLast("onDidDispose", view, NoValue, {}, "", << >>, << >>, "missing",
                    UndefinedResult)
  /\ UNCHANGED <<now, currentView, delegateCalls, rpcVars, registryVars, reducerVars, checkVars,
                 dispatcherVars, actionVars>>

\* An action path that catches what the function throws and posts a patch
\* without a payload.
ActionPathCatches(view, message, how, result) ==
  LET key == message.props["key"].s
      call == [key |-> key, params |-> message.props["params"].elems]
      returned == IF HasOwn(webviewActionDelegate, key) THEN result ELSE InheritedResult(key)
  IN IF ~DelegateFound(key)
       THEN /\ plast' = PLast("message", view, message, {"action"}, "UnknownActionKey",
                              << >>, << >>, key, UndefinedResult)
            /\ UNCHANGED delegateCalls
     ELSE IF how = "returns"
       THEN /\ plast' = PLast("message", view, message, {"action"}, "", <<call>>,
                              SendPatch(currentView, key, returned), key, returned)
            /\ UNCHANGED delegateCalls
     ELSE IF how = "throws"
       THEN /\ plast' = PLast("message", view, message, {"action"}, "DelegateError",
                              <<call>>, SendPatch(currentView, key, UndefinedResult), key,
                              UndefinedResult)
            /\ UNCHANGED delegateCalls
     ELSE /\ delegateCalls' = Append(delegateCalls, [from |-> view, key |-> key])
          /\ plast' = PLast("message", view, message, {"action"}, "", <<call>>, << >>,
                            key, UndefinedResult)

\* The action path up to the await (lines 131-138).  how: what the function
\* found does ("returns": it returns result, or a promise already resolved
\* with it; "throws": it throws or returns a rejected promise; "async": it
\* returns a promise that settles after other events).
ActionPath(view, message, how, result) ==
  LET key == message.props["key"].s
      call == [key |-> key, params |-> message.props["params"].elems]
      returned == IF HasOwn(webviewActionDelegate, key) THEN result ELSE InheritedResult(key)
  IN IF ~DelegateFound(key)
       THEN /\ plast' = PLast("message", view, message, {"action"}, "UnknownActionKey",
                              << >>, << >>, key, UndefinedResult)
            /\ UNCHANGED delegateCalls
     ELSE IF how = "returns"
       THEN /\ plast' = PLast("message", view, message, {"action"}, "", <<call>>,
                              SendPatch(currentView, key, returned), key, returned)
            /\ UNCHANGED delegateCalls
     ELSE IF how = "throws"
       THEN /\ plast' = PLast("message", view, message, {"action"}, "DelegateError",
                              <<call>>, << >>, key, UndefinedResult)
            /\ UNCHANGED delegateCalls
     ELSE /\ delegateCalls' = Append(delegateCalls, [from |-> view, key |-> key])
          /\ plast' = PLast("message", view, message, {"action"}, "", <<call>>, << >>,
                            key, UndefinedResult)

\* The message listener (lines 125-150) run on a message received on a
\* view: what it does to the provider's state.
MessageListener(view, message, how, result) ==
  LET paths == ListenerPaths(message, HostProviderId) IN
  /\ providerViews[view] = "listening"
  /\ how = "async" =>
       /\ Len(delegateCalls) < MaxDelegateCalls
       /\ "action" \in paths
       /\ isFnKey(message.props["key"].s, webviewActionDelegate)
  /\ IF "action" \in paths
       THEN ActionPath(view, message, how, result)
       ELSE /\ plast' = PLast("message", view, message, paths, "", << >>, << >>,
                              "missing", UndefinedResult)
            /\ UNCHANGED delegateCalls

\* webviewView.webview.onDidReceiveMessage fires on a view whose listener
\* is attached.
onDidReceiveMessage(view, message, how, result) ==
  /\ MessageListener(view, message, how, result)
  /\ UNCHANGED <<now, currentView, providerViews, rpcVars, registryVars, reducerVars, checkVars,
                 dispatcherVars, actionVars>>

\* The listener resumes after its await (lines 138-146) when the promise
\* the delegate returned has settled.
AfterAwait(k, ok, result) ==
  LET call == delegateCalls[k] IN
  /\ k \in 1..Len(delegateCalls)
  /\ delegateCalls' = [j \in 1..(Len(delegateCalls) - 1) |->
                         IF j < k THEN delegateCalls[j] ELSE delegateCalls[j + 1]]
  /\ plast' = IF ok
                THEN PLast("settle", call.from, NoValue, {"action"}, "", << >>,
                           SendPatch(currentView, call.key, result), call.key, result)
                ELSE PLast("settle", call.from, NoValue, {"action"}, "DelegateError", << >>,
                           << >>, call.key, UndefinedResult)

\* The promise a delegate returned settles.
DelegateSettles(k, ok, result) ==
  /\ AfterAwait(k, ok, result)
  /\ UNCHANGED <<now, currentView, providerViews, rpcVars, registryVars, reducerVars, checkVars,
                 dispatcherVars, actionVars>>

ProviderInit ==
  /\ currentView = "none"
  /\ providerViews = [v \in Views |-> "new"]
  /\ delegateCalls = << >>
  /\ plast = PLast("init", "none", NoValue, {}, "", << >>, << >>, "missing", UndefinedResult)

\* The messages the views deliver to the provider.
LogValue(kind) ==
  Value(kind, ("type" :> StrProp("log")) @@ ("level" :> NumProp)
              @@ ("message" :> StrProp("[ui] hello")), NoCtx)
ActValue(providerId, key, params) ==
  Value("object", ("type" :> StrProp(ACT)) @@ ("providerId" :> StrProp(providerId))
                  @@ ("key" :> key) @@ ("params" :> params), NoCtx)
RequestValue(id) ==
  Value("object", ("type" :> StrProp("request")) @@ ("id" :> StrProp(id))
                  @@ ("key" :> StrProp("fetchData")) @@ ("params" :> ArrProp(<<"x">>)),
        NoCtx)
ActionKeys == {"increment", "multiplyBy", "label", "toString", "constructor", "__proto__", "missing"}
ProviderMessages ==
  {LogValue(kind) : kind \in {"object", "array"}}
  \cup {ActValue(HostProviderId, StrProp(key), ArrProp(params)) :
          key \in ActionKeys, params \in ActArgs}
  \cup {ActValue(OtherProviderId, StrProp("increment"), ArrProp(<< >>)),
        ActValue(HostProviderId, StrProp("increment"), StrProp("x")),
        RequestValue("req_0_a"),
        Value("null", << >>, NoCtx)}

ProviderNext ==
  \/ \E view \in Views : resolveWebviewView(view)
  \/ \E view \in Views : ProviderViewDisposed(view)
  \/ \E view \in Views, message \in ProviderMessages, how \in {"returns", "throws", "async"},
        result \in DelegateResults :
       onDidReceiveMessage(view, message, how, result)
  \/ \E k \in 1..MaxDelegateCalls, ok \in BOOLEAN, result \in DelegateResults :
       DelegateSettles(k, ok, result)

\* ------------------------------------------------ the message guards
\* types.ts isViewApiRequest accepting any context.
isViewApiRequestAnyContext(message) ==
  /\ IsNonNullObject(message)
  /\ In(message, "type")
  /\ PropIs(message, "type", "request")
  /\ In(message, "id")
  /\ TypeOfProp(message, "id") = "string"
  /\ In(message, "key")
  /\ TypeOfProp(message, "key") = "string"
  /\ In(message, "params")
  /\ TypeOfProp(message, "params") = "array"

\* types.ts isViewApiRequest (lines 58-84)
isViewApiRequest(message) ==
  /\ IsNonNullObject(message)
  /\ In(message, "type")
  /\ PropIs(message, "type", "request")
  /\ In(message, "id")
  /\ TypeOfProp(message, "id") = "string"
  /\ In(message, "key")
  /\ TypeOfProp(message, "key") = "string"
  /\ In(message, "params")
  /\ TypeOfProp(message, "params") = "array"
  /\ \/ ~In(message, "context")
     \/ TypeOfProp(message, "context") = "undefined"
     \/ /\ TypeOfProp(message, "context") \in {"object", "array"}
        /\ "viewId" \in DOMAIN message.ctx
        /\ "viewType" \in DOMAIN message.ctx
        /\ "timestamp" \in DOMAIN message.ctx
        /\ message.ctx["viewId"] = "string"
        /\ message.ctx["viewType"] = "string"
        /\ message.ctx["timestamp"] = "number"

\* The value as the guards of the client engine and of the hook take it.
PropValue(message, f) ==
  IF ~In(message, f) THEN Absent
  ELSE [ty |-> message.props[f].ty,
        v |-> IF message.props[f].ty = "array" THEN message.props[f].elems
              ELSE <<message.props[f].s>>]
ToMsg(message) ==
  Msg(message.kind, PropValue(message, "type"), PropValue(message, "id"),
      PropValue(message, "key"), PropValue(message, "value"),
      PropValue(message, "providerId"))
ToPMsg(message) ==
  PMsg(message.kind, DOMAIN message.props,
       IF TypeOfProp(message, "type") = "string" THEN message.props["type"].s ELSE "",
       IF In(message, "providerId") THEN PropValue(message, "providerId") ELSE Undefined,
       IF TypeOfProp(message, "key") = "string" THEN message.props["key"].s ELSE "missing",
       0)

Guards == {"request", "response", "error", "event", "act", "patch", "log"}
\* What each guard returns for a value.
GuardResult(g, value) ==
  CASE g = "request" -> isViewApiRequest(value)
    [] g = "response" -> isViewApiResponse(ToMsg(value))
    [] g = "error" -> isViewApiError(ToMsg(value))
    [] g = "event" -> isViewApiEvent(ToMsg(value))
    [] g = "act" -> isMyActionMessage(value, HostProviderId)
    [] g = "patch" -> isMyPatchMessage(ToPMsg(value), HostProviderId)
    [] g = "log" -> isLogMessage(value)

\* Every guard is applied to one value.
ApplyGuards(value) ==
  /\ glast' = [op |-> "guards", value |-> value,
               results |-> [g \in Guards |-> GuardResult(g, value)]]
  /\ UNCHANGED <<now, rpcVars, registryVars, reducerVars, providerVars, loglast, dispatcherVars,
                 actionVars>>

GuardInit == glast = [op |-> "init", value |-> NoValue, results |-> [g \in Guards |-> FALSE]]

\* The values the guards are applied to.  For each variant: the envelope
\* with its mandatory properties, as a plain object and as an array object;
\* the same with one property left out, with one property of another type,
\* and with a property no variant knows.
MandatoryProps(g) ==
  CASE g = "request" ->
         ("type" :> StrProp("request")) @@ ("id" :> StrProp("r1"))
         @@ ("key" :> StrProp("fetchData")) @@ ("params" :> ArrProp(<<"x">>))
    [] g = "response" -> ("type" :> StrProp("response")) @@ ("id" :> StrProp("r1"))
    [] g = "error" ->
         ("type" :> StrProp("error")) @@ ("id" :> StrProp("r1")) @@ ("value" :> StrProp("boom"))
    [] g = "event" ->
         ("type" :> StrProp("event")) @@ ("key" :> StrProp("onData"))
         @@ ("value" :> ArrProp(<<"x">>))
    [] g = "act" ->
         ("type" :> StrProp(ACT)) @@ ("providerId" :> StrProp(HostProviderId))
         @@ ("key" :> StrProp("increment")) @@ ("params" :> ArrProp(<< >>))
    [] g = "patch" ->
         ("type" :> StrProp(PATCH)) @@ ("providerId" :> StrProp(HostProviderId))
         @@ ("key" :> StrProp("increment")) @@ ("patch" :> NumProp)
    [] g = "log" ->
         ("type" :> StrProp("log")) @@ ("level" :> NumProp) @@ ("message" :> StrProp("hello"))
Without(props, f) == [x \in DOMAIN props \ {f} |-> props[x]]
Retyped(props, f, ty) == [props EXCEPT ![f] = Prop(ty, "", << >>)]
WithExtra(props) == ("extra" :> StrProp("more")) @@ props
WrongTypes == {"number", "string", "undefined", "null", "object"}
PropVariants(g) ==
  LET props == MandatoryProps(g) IN
  {props, WithExtra(props)}
  \cup {Without(props, f) : f \in DOMAIN props}
  \cup UNION {{Retyped(props, f, ty) : ty \in WrongTypes \ {props[f].ty}} :
                f \in DOMAIN props \ {"type"}}
  \cup {[props EXCEPT !["type"] = StrProp("other")]}

\* The objects a request may hold under `context`.
FullContext ==
  ("viewId" :> "string") @@ ("viewType" :> "string") @@ ("timestamp" :> "number")
Contexts ==
  {FullContext, ("sessionId" :> "string") @@ FullContext, ("extra" :> "string") @@ FullContext}
  \cup {Without(FullContext, f) : f \in DOMAIN FullContext}
  \cup {[FullContext EXCEPT ![f] = ty] : f \in DOMAIN FullContext, ty \in {"number", "string", "undefined"}}
RequestsWithContext ==
  {Value(kind, ("context" :> Prop("object", "", << >>)) @@ MandatoryProps("request"), ctx) :
     kind \in {"object", "array"}, ctx \in Contexts}
  \cup {Value("object", ("context" :> Prop(ty, "", << >>)) @@ MandatoryProps("request"), NoCtx) :
          ty \in {"undefined", "null", "string", "number"}}
  \cup {Value("object", ("context" :> Prop("object", "", << >>))
                        @@ Without(MandatoryProps("request"), "id"), FullContext)}

GuardInputs ==
  {Value(kind, props, NoCtx) : kind \in {"object", "array"},
                               props \in UNION {PropVariants(g) : g \in Guards}}
  \cup {Value(kind, << >>, NoCtx) : kind \in {"null", "undefined", "string", "number", "array"}}
  \cup RequestsWithContext

GuardNext == \E value \in GuardInputs : ApplyGuards(value)

\* --------------------------------------------------- host: the logger
\* A structured log payload.  t: the run-time type of the node ("object",
\* "array", "string", "null", "undefined"); e: the entries of an object in
\* insertion order, or the elements of an array (under the key ""); s: the
\* text of a string.
Node(t, e, s) == [t |-> t, e |-> e, s |-> s]
Entry(k, v) == [k |-> k, v |-> v]
Leaf(s) == Node("string", << >>, s)
NullNode == Node("null", << >>, "")
UndefinedNode == Node("undefined", << >>, "")
ObjNode(e) == Node("object", e, "")
ArrNode(kids) == Node("array", [i \in 1..Len(kids) |-> Entry("", kids[i])], "")

\* logger.ts line 5
disallowedLogKeys == {"password", "secret", "token", "apiKey", "apiSecret", "content"}

\* The property names of the payloads.
LogKeys == {"password", "Password", "token", "apiKey", "APIKEY", "apikey", "content",
            "safe", "user"}
\* key.toLowerCase()
toLowerCase(key) ==
  CASE key = "Password" -> "password"
    [] key \in {"apiKey", "APIKEY"} -> "apikey"
    [] OTHER -> key

\* disallowedLogKeys.includes(key.toLowerCase()) (line 22)
IsDisallowed(key) == toLowerCase(key) \in disallowedLogKeys

RECURSIVE removePromptsFromData(_)
\* logger.ts removePromptsFromData (lines 7-39), for payloads that
\* structuredClone accepts.
removePromptsFromData(dictionary) ==
  IF dictionary.t \in {"null", "undefined"} THEN UndefinedNode
  ELSE IF dictionary.t = "array"
    THEN Node("array",
              [i \in 1..Len(dictionary.e) |->
                 Entry("", removePromptsFromData(dictionary.e[i].v))], "")
  ELSE IF dictionary.t # "object" THEN dictionary
  ELSE LET kept == SelectSeq(dictionary.e, LAMBDA x : ~IsDisallowed(x.k))
       IN Node("object",
               [i \in 1..Len(kept) |->
                  IF kept[i].v.t \in {"array", "object"}
                    THEN Entry(kept[i].k, removePromptsFromData(kept[i].v))
                    ELSE kept[i]], "")

\* LoggerImpl.log (lines 71-99) with no output channel set, as after
\* construction: the console logger is given the message and the cleaned
\* payload.  sunk: what the sink was given.
log(level, data) ==
  /\ loglast' = [op |-> "log", level |-> level, data |-> data,
                 sunk |-> removePromptsFromData(data)]
  /\ UNCHANGED <<now, rpcVars, registryVars, reducerVars, providerVars, glast, dispatcherVars,
                 actionVars>>

LogInit == loglast = [op |-> "init", level |-> "", data |-> UndefinedNode,
                      sunk |-> UndefinedNode]

\* The payloads logged: flat objects of one or two properties, and objects
\* that hold a flat object directly, in an array, or in an array of arrays.
FlatObjects ==
  {ObjNode(<<Entry(k, Leaf("v"))>>) : k \in LogKeys}
  \cup {ObjNode(<<Entry("safe", Leaf("v")), Entry(k, Leaf("w"))>>) : k \in LogKeys \ {"safe"}}
  \cup {ObjNode(<<Entry(k, Leaf("w")), Entry("user", NullNode)>>) : k \in LogKeys \ {"user"}}
NestedObjects ==
  {ObjNode(<<Entry("user", o)>>) : o \in FlatObjects}
  \cup {ObjNode(<<Entry("items", ArrNode(<<o, Leaf("x")>>))>>) : o \in FlatObjects}
  \cup {ObjNode(<<Entry("items", ArrNode(<<ArrNode(<<o>>)>>))>>) : o \in FlatObjects}
  \cup {ObjNode(<<Entry(k, ObjNode(<<Entry("safe", Leaf("v"))>>))>>) : k \in LogKeys}
LogPayloads == FlatObjects \cup NestedObjects \cup {UndefinedNode}
LogLevels == {"debug", "info", "warn", "error"}

LogNext == \E level \in LogLevels, data \in LogPayloads : log(level, data)

\* ------------------------------------- host: the RPC request dispatcher
\* The handlers of the dispatcher (README, MyRpcViewProvider.handleMessage).
HandlerKeys == {"fetchGreeting", "saveCount"}
\* What a handler does: it completes ("ok"), throws an Error, or throws a
\* value that is no Error.
HandlerBehaviours == {"ok", "throwsError", "throwsValue"}
\* What the handler of a key returns: fetchGreeting `Hello, ${name}!`,
\* saveCount nothing.
HandlerValue(key, params) ==
  IF key = "fetchGreeting" THEN Str("Hello, " \o params[1] \o "!") ELSE Absent
\* What a handler throws.
HandlerThrows(how) == IF how = "throwsError" THEN Err("handler failed") ELSE Str("not an error")

\* The envelopes the dispatcher builds.
ResponseEnvelope(id, value) == Msg("object", Str("response"), Str(id), Absent, value, Absent)
ErrorEnvelope(id, text) == Msg("object", Str("error"), Str(id), Absent, Str(text), Absent)

\* e instanceof Error ? e.message : String(e)
FailureMessage(e) == StringOf(e)

\* What the body of the try block does: the envelope it passes to
\* webview.postMessage, or the value thrown before any is built.
TryBlock(message, how) ==
  LET id == message.props["id"].s
      key == message.props["key"].s
  IN IF key \notin HandlerKeys
       THEN [threw |-> FALSE, envelope |-> ErrorEnvelope(id, "Unknown method: " \o key),
             error |-> Undefined]
     ELSE IF how # "ok"
       THEN [threw |-> TRUE, envelope |-> NoMsg, error |-> HandlerThrows(how)]
     ELSE [threw |-> FALSE,
           envelope |-> ResponseEnvelope(id, HandlerValue(key, message.props["params"].elems)),
           error |-> Undefined]

\* handleMessage (README lines 248-282).  posts: what the first and the
\* second call of webview.postMessage do ("resolve", or "fail": the call
\* throws or its thenable rejects).  sent: the calls made; threw: the
\* promise of handleMessage rejects.
Dispatch(message, how, posts) ==
  LET id == message.props["id"].s
      try == TryBlock(message, how)
      first == [envelope |-> try.envelope, outcome |-> posts[1]]
      sendError == ErrorEnvelope(id, "send failed")
  IN IF ~isViewApiRequest(message) THEN [sent |-> << >>, threw |-> FALSE]
     ELSE IF try.threw
       THEN [sent |-> <<[envelope |-> ErrorEnvelope(id, FailureMessage(try.error)),
                         outcome |-> posts[1]]>>,
             threw |-> posts[1] = "fail"]
     ELSE IF posts[1] = "resolve" THEN [sent |-> <<first>>, threw |-> FALSE]
     ELSE [sent |-> <<first, [envelope |-> sendError, outcome |-> posts[2]]>>,
           threw |-> posts[2] = "fail"]

DLast(op, msg, how, sent, threw) ==
  [op |-> op, msg |-> msg, how |-> how, sent |-> sent, threw |-> threw]

\* The provider's listener hands a message to handleMessage.
MyRpcHandleMessage(message, how, posts) ==
  /\ dlast' = DLast("handleMessage", message, how, Dispatch(message, how, posts).sent,
                    Dispatch(message, how, posts).threw)
  /\ UNCHANGED <<now, rpcVars, registryVars, reducerVars, providerVars, checkVars, replies,
                 actionVars>>

\* The requests and the other values the dispatcher is given.
RpcKeys == HandlerKeys \cup {"fetchData"}
DispatcherMessages ==
  {Value("object", ("type" :> StrProp("request")) @@ ("id" :> StrProp(id))
                   @@ ("key" :> StrProp(key)) @@ ("params" :> ArrProp(<<name>>)), NoCtx) :
     id \in RequestIds, key \in RpcKeys, name \in {"x", "y"}}
  \cup {Value("object", ("type" :> StrProp("request")) @@ ("id" :> NumProp)
                        @@ ("key" :> StrProp("saveCount")) @@ ("params" :> ArrProp(<<"x">>)),
              NoCtx),
        Value("object", ("type" :> StrProp("event")) @@ ("key" :> StrProp("onData"))
                        @@ ("value" :> ArrProp(<<"x">>)), NoCtx)}
PostBehaviours == {"resolve", "fail"}

DispatcherNext ==
  \E message \in DispatcherMessages, how \in HandlerBehaviours,
     posts \in [1..2 -> PostBehaviours] :
    MyRpcHandleMessage(message, how, posts)

\* ------------------------------------- end to end: request and reply
\* The request the host's listener receives for the i-th callApi call.
RequestValueOf(r) ==
  Value("object", ("type" :> StrProp("request")) @@ ("id" :> StrProp(r.id))
                  @@ ("key" :> StrProp(r.key)) @@ ("params" :> ArrProp(<<"x">>)), NoCtx)

\* The transport delivers the i-th request to the host, whose dispatcher
\* replies on a transport that accepts the reply.
HostReceives(i, how) ==
  LET message == RequestValueOf(requests[i])
      done == Dispatch(message, how, [n \in 1..2 |-> "resolve"])
  IN /\ i \in 1..Len(requests)
     /\ i \notin DOMAIN replies
     /\ dlast' = DLast("handleMessage", message, how, done.sent, done.threw)
     /\ replies' = (i :> [msg |-> done.sent[1].envelope, delivered |-> FALSE, how |-> how])
                   @@ replies
     /\ UNCHANGED <<now, rpcVars, registryVars, reducerVars, providerVars, checkVars,
                    actionVars>>

\* The transport delivers the reply to the i-th request to the webview,
\* where the component is mounted: window dispatches the message event.
ClientReceives(i) ==
  /\ i \in DOMAIN replies
  /\ ~replies[i].delivered
  /\ phase = "mounted"
  /\ handleMessage(replies[i].msg, {})
  /\ replies' = [replies EXCEPT ![i].delivered = TRUE]
  /\ UNCHANGED <<now, phase, requests, unhandled, listeners, registryVars, reducerVars,
                 providerVars, checkVars, dlast, actionVars>>

\* callApi on a transport that accepts the request.
RpcCall(key, suffix) == callApi(key, suffix, [kind |-> "thenable", thrown |-> Undefined])

RpcInit ==
  /\ dlast = DLast("init", NoValue, "", << >>, FALSE)
  /\ replies = << >>

RpcNext ==
  \/ Mount
  \/ Tick
  \/ \E key \in RpcKeys, suffix \in RandSuffixes : RpcCall(key, suffix)
  \/ \E i \in 1..MaxRequests, how \in HandlerBehaviours : HostReceives(i, how)
  \/ \E i \in 1..MaxRequests : ClientReceives(i)

\* Every request accepted by the transport reaches the host, every reply
\* reaches the webview, and the component's effects run.
RpcFairness ==
  /\ WF_vars(Mount)
  /\ \A i \in 1..MaxRequests :
       /\ WF_vars(\E how \in HandlerBehaviours : HostReceives(i, how))
       /\ WF_vars(ClientReceives(i))

\* ------------------------------------ end to end: action and patch
\* The unidirectional flow of README.md lines 167-179: a component's actor
\* posts an act envelope, the provider's listener calls the delegate and
\* posts a patch, the hook's handler applies the reducer of the same key.
MaxActions == 2

\* The webview each component runs in: one component per webview, every
\* webview resolved by the one provider.
WebviewOf(i) == IF i = 1 THEN "w1" ELSE "w2"

\* The act envelope of postAction as the provider's listener receives it.
ActMessage(envelope) ==
  ActValue(envelope.providerId,
           IF IsSymbol(envelope.key) THEN Prop("symbol", envelope.key, << >>)
           ELSE StrProp(envelope.key),
           ArrProp(envelope.params))

\* The patch envelope of the provider as the hook's handler receives it.
PatchMessage(envelope) ==
  PMsg("object", PatchFields, envelope.type, Str(envelope.providerId), envelope.key,
       envelope.patch.n)

\* One dispatched action.  stage: "sent" (the act envelope is in flight),
\* "awaiting" (the listener is suspended at its await), "failed" (the
\* listener threw), "dropped" (the delegate completed and no patch was
\* posted), "patched" (the delegate completed and the patch is in flight to
\* the view `to`), "delivered" (the window of `to` has dispatched the patch;
\* applied: the instances whose handler called setState; prev, next: the
\* state of the dispatching instance before and after).  received: the
\* position of the act envelope among those the provider has received (0:
\* not received yet); posted: the position of the patch among those the
\* provider has posted (0: none posted yet).
Action(inst, envelope, stage, to, patch, applied, prev, next) ==
  [inst |-> inst, envelope |-> envelope, stage |-> stage, to |-> to, patch |-> patch,
   applied |-> applied, prev |-> prev, next |-> next, received |-> 0, posted |-> 0]

\* How many act envelopes the provider has received, and how many patches
\* it has posted.
Received == Cardinality({j \in 1..Len(actions) : actions[j].received > 0})
Posted == Cardinality({j \in 1..Len(actions) : actions[j].posted > 0})

\* What a step of the listener recorded in plast has made of an action.
AfterListener(a, p, suspended) ==
  IF p.threw # "" THEN [a EXCEPT !.stage = "failed"]
  ELSE IF suspended THEN [a EXCEPT !.stage = "awaiting"]
  ELSE IF p.sent = << >> THEN [a EXCEPT !.stage = "dropped"]
  ELSE [a EXCEPT !.stage = "patched", !.to = p.sent[1].to, !.patch = p.sent[1].envelope,
                 !.posted = Posted + 1]

NoEnvelope == PatchEnvelope("", "missing", UndefinedResult)

\* actor[prop](...args) called in a component whose webview has been
\* resolved; the envelope handed to vscode.postMessage goes to the host.
ActorDispatch(i, prop, args) ==
  LET e == engines[i]
      getError == ActorGetError(e.postReducer, prop)
      posted == postAction(e, prop, args)
      sent == IF getError # "" THEN << >> ELSE posted.sent
  IN /\ e.phase \in {"rendered", "mounted"}
     /\ providerViews[WebviewOf(i)] = "listening"
     /\ Len(actions) < MaxActions
     /\ elast' = ELastCall("actorCall", i, prop, args,
                            [NoThrow EXCEPT ![i] = IF getError # "" THEN getError
                                                   ELSE posted.threw],
                            sent)
     /\ actions' = IF sent = << >> THEN actions
                   ELSE Append(actions, Action(i, sent[1], "sent", "none", NoEnvelope, {},
                                               e.state, e.state))
     /\ UNCHANGED <<now, engines, rpcVars, registryVars, providerVars, checkVars,
                    dispatcherVars>>

\* The act envelope of the j-th action reaches the listener attached to the
\* view of the webview it was posted from.
HostReceivesAct(j, how, result) ==
  /\ j \in 1..Len(actions)
  /\ actions[j].stage = "sent"
  /\ how = "async" => \A x \in 1..Len(actions) : actions[x].stage # "awaiting"
  /\ MessageListener(WebviewOf(actions[j].inst), ActMessage(actions[j].envelope), how, result)
  /\ actions' = [actions EXCEPT ![j] = AfterListener([@ EXCEPT !.received = Received + 1],
                                                     plast', how = "async")]
  /\ UNCHANGED <<now, currentView, providerViews, rpcVars, registryVars, reducerVars,
                 checkVars, dispatcherVars>>

\* The promise of the delegate the listener is awaiting settles.
ActSettles(j, ok, result) ==
  /\ j \in 1..Len(actions)
  /\ actions[j].stage = "awaiting"
  /\ AfterAwait(1, ok, result)
  /\ actions' = [actions EXCEPT ![j] = AfterListener(@, plast', FALSE)]
  /\ UNCHANGED <<now, currentView, providerViews, rpcVars, registryVars, reducerVars,
                 checkVars, dispatcherVars>>

\* The window of the view the patch was posted to dispatches it: the
\* handler of every component of that webview runs.  (React runs a
\* component's effect before the next message event is dispatched.)
PatchDelivered(j) ==
  LET a == actions[j]
      data == PatchMessage(a.patch)
      here == {i \in Instances : WebviewOf(i) = a.to}
      accepted == {i \in here : HandlerOutcome(engines[i], data) = "accepted"}
  IN /\ j \in 1..Len(actions)
     /\ a.stage = "patched"
     /\ \A i \in here : engines[i].phase # "rendered"
     /\ engines' = [i \in Instances |->
                      IF i \in here THEN HandlerEffect(engines[i], data) ELSE engines[i]]
     /\ elast' = ELast("message", 0, data, "missing",
                        [i \in Instances |->
                           IF i \in here /\ HandlerOutcome(engines[i], data) = "threw"
                             THEN "NoFunctionForPatch" ELSE ""],
                        accepted, << >>)
     /\ actions' = [actions EXCEPT ![j] = [@ EXCEPT !.stage = "delivered",
                                                    !.applied = accepted,
                                                    !.prev = engines[a.inst].state,
                                                    !.next = engines'[a.inst].state]]
     /\ UNCHANGED <<now, rpcVars, registryVars, providerVars, checkVars, dispatcherVars>>

ActionInit == actions = << >>

\* What the delegates return: numbers.
NumberResults == {JsResult("number", n) : n \in Patches}
DispatchedKeys == {"increment", "multiplyBy", "missing"}

\* Two webviews, each with one component under the provider's id; the
\* editor resolves each view once; the components dispatch actions.
ActionNext ==
  \/ \E i \in Instances : useVscodeState(i, HostProviderId, PlainMap, "api", InitialStateOf(i))
  \/ \E i \in Instances : EngineMount(i)
  \/ \E view \in Views : resolveWebviewView(view)
  \/ \E i \in Instances, prop \in DispatchedKeys : ActorDispatch(i, prop, << >>)
  \/ \E j \in 1..MaxActions, how \in {"returns", "throws", "async"}, result \in NumberResults :
       HostReceivesAct(j, how, result)
  \/ \E j \in 1..MaxActions, ok \in BOOLEAN, result \in NumberResults : ActSettles(j, ok, result)
  \/ \E j \in 1..MaxActions : PatchDelivered(j)

\* Effects run, the transports deliver and pending promises settle.
ActionFairness ==
  /\ \A i \in Instances : WF_vars(EngineMount(i))
  /\ \A j \in 1..MaxActions :
       /\ WF_vars(\E how \in {"returns", "throws", "async"}, result \in NumberResults :
                    HostReceivesAct(j, how, result))
       /\ WF_vars(\E ok \in BOOLEAN, result \in NumberResults : ActSettles(j, ok, result))
       /\ WF_vars(PatchDelivered(j))

\* -------------------------------------------------------- specifications
Init == ClientInit /\ HostInit /\ EngineInit /\ ProviderInit /\ GuardInit /\ LogInit /\ RpcInit /\ ActionInit

\* The webview side alone: the host's state does not move.
SpecClient == Init /\ [][ClientNext]_vars
SpecSend == Init /\ [][SendNext]_vars
SpecEvents == Init /\ [][EventNext]_vars
SpecApi == Init /\ [][ApiNext]_vars
SpecRouting == Init /\ [][RoutingNext]_vars
\* The host's view registry alone.
SpecHost == Init /\ [][HostNext]_vars
\* The reducer engines (useVscodeState) alone.
SpecReducer == Init /\ [][ReducerNext]_vars
\* The host's view provider (BaseWebviewViewProvider) alone.
SpecProvider == Init /\ [][ProviderNext]_vars
\* The message guards applied to values of every shape.
SpecGuards == Init /\ [][GuardNext]_vars
\* The host's logger given payloads of every shape.
SpecLog == Init /\ [][LogNext]_vars
\* The host's request dispatcher alone.
SpecDispatcher == Init /\ [][DispatcherNext]_vars
\* The RPC client, a transport that delivers every message, and the
\* dispatcher.
SpecRpc == Init /\ [][RpcNext]_vars /\ RpcFairness
\* Components, provider and the transports between them, for actions.
SpecActions == Init /\ [][ActionNext]_vars /\ ActionFairness

\* ------------------------------------------------------------- claims
\* A reply (response or error envelope) is being handled by handleMessage.
ReplyStep ==
  /\ last'.op = "message"
  /\ phase = "mounted"
  /\ last'.outcome \in {"response", "error"}

ReplyId == StringOf(last'.msg.id)

\* The table holds the deferred promise of call i under the call's own id.
Held(i) ==
  /\ requests[i].id \in DOMAIN pendingRequests
  /\ pendingRequests[requests[i].id] = i

\* C1: a reply that carries a request's id settles the future of that very
\* call (fulfilled by a response, rejected by an error) if it is pending, and
\* changes no other future; a future that is settled never changes again.
C1_RoundTripCorrelation ==
  [][ReplyStep =>
       \A i \in 1..Len(deferreds) :
         IF requests[i].id = ReplyId /\ deferreds[i].state = "pending"
           THEN deferreds'[i].state =
                  (IF last'.outcome = "response" THEN "fulfilled" ELSE "rejected")
           ELSE deferreds'[i] = deferreds[i]]_vars

\* C2: teardown rejects every future that is still pending with an Error,
\* leaves its timeout cleared and its settled flag set, and empties the
\* table; after teardown a message changes no future and nothing of the table
\* and throws nothing.
C2_TeardownRejectsAll ==
  [][/\ last'.op = "unmount" =>
          /\ pendingRequests' = << >>
          /\ \A i \in 1..Len(deferreds) :
               deferreds[i].state = "pending" =>
                 /\ deferreds'[i].state = "rejected"
                 /\ deferreds'[i].value.ty = "Error"
                 /\ deferreds'[i].timeoutHandle = "undefined"
                 /\ deferreds'[i].settled
     /\ (phase = "unmounted" /\ last'.op = "message") =>
          /\ deferreds' = deferreds
          /\ pendingRequests' = pendingRequests
          /\ ~last'.escaped]_vars

\* C3: when the thenable returned by postMessage has rejected, the future of
\* that call is rejected, the table no longer holds it, and the rejection is
\* not left unhandled.
C3_AsyncSendFailureHandled ==
  \A i \in 1..Len(requests) :
    requests[i].send = "rejected" =>
      /\ deferreds[i].state = "rejected"
      /\ ~Held(i)
      /\ i \notin unhandled

\* C4: when postMessage throws inside callApi, on return the call's id is
\* not in the table, its future is rejected with the thrown value (the Error
\* itself, or an Error of its string form), and the entries and futures of
\* all other requests are as before.
C4_SyncThrowCleansUp ==
  [][(last'.op = "callApi" /\ last'.outcome = "throw") =>
       LET i == last'.idx
           thrown == last'.thrown
       IN /\ requests'[i].id \notin DOMAIN pendingRequests'
          /\ deferreds'[i].state = "rejected"
          /\ deferreds'[i].value =
               (IF thrown.ty = "Error" THEN thrown ELSE Err(thrown.v[1]))
          /\ pendingRequests' = pendingRequests
          /\ \A j \in 1..Len(deferreds) : deferreds'[j] = deferreds[j]]_vars

\* C5: handling a reply whose id is in the table removes the id from the
\* table and leaves the entry's timeout cleared; a response fulfils the entry's
\* future with the message's value (undefined when the field is absent), an
\* error rejects it with an Error carrying the error's string.
C5_ReplyRemovesAndSettles ==
  [][(ReplyStep /\ ReplyId \in DOMAIN pendingRequests) =>
       LET i == pendingRequests[ReplyId]
           m == last'.msg
       IN /\ ReplyId \notin DOMAIN pendingRequests'
          /\ deferreds'[i].timeoutHandle = "undefined"
          /\ IF last'.outcome = "response"
               THEN /\ deferreds'[i].state = "fulfilled"
                    /\ deferreds'[i].value = (IF m.value = Absent THEN Undefined ELSE m.value)
               ELSE /\ deferreds'[i].state = "rejected"
                    /\ deferreds'[i].value = Err(m.value.v[1])]_vars

\* A response without a value field has just fulfilled a future with
\* undefined and its id has left the table.
C5_Witness ==
  /\ last.op = "message"
  /\ last.outcome = "response"
  /\ last.msg.value = Absent
  /\ StringOf(last.msg.id) \notin DOMAIN pendingRequests
  /\ \E i \in 1..Len(deferreds) :
       /\ requests[i].id = StringOf(last.msg.id)
       /\ deferreds[i].state = "fulfilled"
       /\ deferreds[i].value = Undefined

C7_NeverSettlesOnItsOwn ==
  [][\A i \in 1..Len(deferreds) :
       (/\ deferreds[i].state = "pending"
        /\ Held(i)
        /\ ~(ReplyStep /\ ReplyId = requests[i].id)
        /\ last'.op # "unmount")
       => (deferreds'[i].state = "pending" /\ Held(i)')]_vars

\* C8: an event message invokes every callback registered for its key, once
\* each and in order, with the value array as arguments, whichever of them
\* throw; no other callback runs, nothing escapes the handler, and the table,
\* the futures and the listener sets are unchanged.
C8_EventDispatchIsolated ==
  [][(last'.op = "message" /\ phase = "mounted" /\ last'.outcome = "event") =>
       LET key == last'.msg.key.v[1]
           cbs == IF key \in DOMAIN listeners THEN listeners[key] ELSE << >>
       IN /\ last'.invoked = [k \in 1..Len(cbs) |-> <<cbs[k], last'.msg.value.v>>]
          /\ ~last'.escaped
          /\ pendingRequests' = pendingRequests
          /\ deferreds' = deferreds
          /\ listeners' = listeners]_vars

\* Two callbacks were invoked for one event although the first threw, while
\* a request is pending and the other key has a listener too.
C8_Witness ==
  /\ last.op = "message"
  /\ last.outcome = "event"
  /\ Len(last.invoked) = 2
  /\ last.invoked[1][1] \in last.throwers
  /\ last.invoked[1][2] = EventArgs
  /\ pendingRequests # << >>
  /\ \E key \in DOMAIN listeners :
       key # last.msg.key.v[1] /\ listeners[key] # << >>

\* C9: a broadcast over N registered transports, all returning thenables or
\* throwing, of which M < N fail (throw, or return a thenable that rejects)
\* calls postMessage once for each of the N, does not throw, and leaves N - M
\* transports registered on return.
C9_BroadcastPrunesFailures ==
  [][(hlast'.op = "triggerEvent"
      /\ \A id \in DOMAIN connectedViews : hlast'.outcomes[id] # "sync") =>
       LET N == Cardinality(DOMAIN connectedViews)
           M == Cardinality({id \in DOMAIN connectedViews :
                               hlast'.outcomes[id] \in {"throw", "reject"}})
       IN M < N =>
            /\ hlast'.attempted = DOMAIN connectedViews
            /\ ~hlast'.threw
            /\ Cardinality(DOMAIN connectedViews') = N - M]_vars

\* C10: once every rejection has been handled, a broadcast calls postMessage
\* on no transport whose send failed in an earlier broadcast, unless a view
\* was registered under its id since.
C10_FailedTransportNotSentAgain ==
  [][(hlast'.op = "triggerEvent" /\ postPromises = {}) =>
       hlast'.attempted \cap failedOnce = {}]_vars

\* The ids under which the registry holds the view.
HeldUnder(view) == {id \in DOMAIN connectedViews : connectedViews[id].view = view}

\* C11: registerView(id, view) while the registry holds that very view under
\* that id changes neither the count nor the stored entry (context included)
\* nor the disposal subscriptions, and does not subscribe again.
C11_RegisterSameViewIsNoOp ==
  [][(hlast'.op = "registerView" /\ hlast'.id \in HeldUnder(hlast'.view)) =>
       /\ getConnectedViewCount' = getConnectedViewCount
       /\ connectedViews' = connectedViews
       /\ subscriptions' = subscriptions
       /\ ~hlast'.subscribed]_vars

\* A view has just been registered a second time under its id while another
\* id is registered too.
C11_Witness ==
  /\ hlast.op = "registerView"
  /\ ~hlast.subscribed
  /\ hlast.id \in HeldUnder(hlast.view)
  /\ getConnectedViewCount = 2

\* C12: every id of the registry maps to one transport; the disposal of a
\* transport held under one id removes that entry and lowers the count by
\* one; registering an id the registry does not hold (its transport was
\* disposed) stores the new transport under it.
C12_OneTransportPerId ==
  [][/\ \A id \in DOMAIN connectedViews' : connectedViews'[id].view \in Views
     /\ (hlast'.op = "viewDisposed" /\ Cardinality(HeldUnder(hlast'.view)) = 1) =>
          /\ HeldUnder(hlast'.view) \cap DOMAIN connectedViews' = {}
          /\ getConnectedViewCount' = getConnectedViewCount - 1
     /\ (hlast'.op = "registerView" /\ hlast'.id \notin DOMAIN connectedViews) =>
          /\ hlast'.id \in DOMAIN connectedViews'
          /\ connectedViews'[hlast'.id].view = hlast'.view
          /\ getConnectedViewCount' = getConnectedViewCount + 1]_vars

\* C13: dispose() leaves the registry empty and does not throw, also when
\* it follows another dispose(); a triggerEvent that follows dispose() calls
\* postMessage on no transport, creates no promise and does not throw.
C13_DisposeEmptiesAndIsIdempotent ==
  [][/\ hlast'.op = "dispose" =>
          /\ connectedViews' = << >>
          /\ getConnectedViewCount' = 0
          /\ ~hlast'.threw
     /\ (hlast'.op = "triggerEvent" /\ hlast.op = "dispose") =>
          /\ hlast'.attempted = {}
          /\ postPromises' = postPromises
          /\ ~hlast'.threw]_vars

\* A broadcast has just followed dispose() on a provider that had views
\* registered with live disposal subscriptions, and reached no transport.
C13_Witness ==
  /\ hlast.op = "triggerEvent"
  /\ hlast.prev = "dispose"
  /\ hlast.attempted = {}
  /\ Cardinality(subscriptions) = 2
  /\ disposedViews = {}

\* The message is a patch envelope carrying the provider id as a string.
PatchFor(data, providerId) ==
  /\ data \in WellFormedPatches
  /\ StringOf(data.providerId) = providerId

\* C14: a message that is no patch envelope for the provider id of an
\* instance leaves that instance as it is, is not applied by it and raises
\* no error in its handler, whatever the other instances on the window do
\* with it.
C14_ProviderIsolation ==
  [][elast'.op = "message" =>
       \A i \in Instances :
         ~PatchFor(elast'.msg, engines[i].providerId) =>
           /\ engines'[i] = engines[i]
           /\ i \notin elast'.accepted
           /\ elast'.threw[i] = ""]_vars

\* A patch for p1 has just been applied by the instance bound to p1 while
\* the mounted instance bound to p2 kept its initial state.
C14_Witness ==
  /\ elast.op = "message"
  /\ PatchFor(elast.msg, "p1")
  /\ elast.accepted = {1}
  /\ engines[1].state # 0
  /\ engines[2].phase = "mounted"
  /\ engines[2].providerId = "p2"
  /\ engines[2].state = 1

\* The three names the engine always rejects.
ReservedNames == {"__proto__", "constructor", "prototype"}

\* C15: a patch envelope for the provider id of a mounted instance whose key
\* is no own function of the reducer map, or is one of the three reserved
\* names (also when the map has an own function under it), makes the handler
\* throw and leaves the instance's state as it is.
C15_InvalidPatchKeyThrows ==
  [][elast'.op = "message" =>
       \A i \in Instances :
         (/\ engines[i].phase = "mounted"
          /\ PatchFor(elast'.msg, engines[i].providerId)
          /\ \/ ~(HasOwn(engines[i].postReducer, elast'.msg.key)
                   /\ IsFunction(engines[i].postReducer, elast'.msg.key))
             \/ elast'.msg.key \in ReservedNames)
         => /\ elast'.threw[i] = "NoFunctionForPatch"
            /\ i \notin elast'.accepted
            /\ engines'[i] = engines[i]]_vars

\* A patch keyed constructor has just made the handler throw although the
\* reducer map has an own function of that name, after the state had moved.
C15_Witness ==
  /\ elast.op = "message"
  /\ elast.msg.key = "constructor"
  /\ engines[1].postReducer = HostileMap
  /\ elast.threw[1] = "NoFunctionForPatch"
  /\ engines[1].state # InitialStateOf(1)

\* C16: the state of an instance starts as the initial state, each patch its
\* handler accepts (only while mounted, only for its provider id) replaces it
\* by reducer[key](previous state, patch), and no other step changes it: the
\* state is the left fold of the reducers over the accepted patches in
\* delivery order.
C16_StateIsFoldOfPatches ==
  [][\A i \in Instances :
       /\ engines'[i].state =
            IF elast'.op = "message" /\ i \in elast'.accepted
              THEN Reduce(elast'.msg.key, engines[i].state, elast'.msg.patch)
            ELSE IF elast'.op = "useVscodeState" /\ elast'.inst = i
              THEN InitialStateOf(i)
            ELSE engines[i].state
       /\ (elast'.op = "message" /\ i \in elast'.accepted) =>
            /\ engines[i].phase = "mounted"
            /\ PatchFor(elast'.msg, engines[i].providerId)]_vars

\* Both instances bound to p1 have just applied multiplyBy(1) and hold
\* different states, each folded from its own initial state.
C16_Witness ==
  /\ elast.op = "message"
  /\ elast.accepted = {1, 2}
  /\ elast.msg.key = "multiplyBy"
  /\ elast.msg.patch = 1
  /\ engines[1].state = 1
  /\ engines[2].state = 0

\* C17: reading __proto__, constructor or prototype on the actor, called or
\* not, throws the dangerous-key error whatever the reducer map holds, and
\* hands nothing to vscode.postMessage.
C17_DangerousKeysAlwaysThrow ==
  [][(elast'.op \in {"actorGet", "actorCall"} /\ elast'.key \in ReservedNames) =>
       /\ elast'.threw[elast'.inst] = "DangerousKey"
       /\ elast'.sent = << >>
       /\ engines' = engines]_vars

\* actor.constructor(...) has just thrown the dangerous-key error on a
\* reducer map that has an own function named constructor.
C17_Witness ==
  /\ elast.op = "actorCall"
  /\ elast.key = "constructor"
  /\ engines[elast.inst].postReducer = HostileMap
  /\ elast.threw[elast.inst] = "DangerousKey"
  /\ elast.sent = << >>

C20_UnknownApiKeyThrows ==
  [][(last'.op = "callApi" /\ requests'[last'.idx].key \notin ClientKeys) =>
       /\ requests' = requests
       /\ pendingRequests' = pendingRequests
       /\ deferreds' = deferreds]_vars

\* C21: every message the host provider receives is passed to exactly one
\* of its three handlers, chosen in this order: the log handler when it is
\* a log message, else the action path when it is an act envelope for this
\* provider's id, else the generic handler.  An act envelope for another
\* provider id goes to the generic handler, and a message that took
\* another path than the action path calls no delegate and sends no patch.
C21_OnePathInPriorityOrder ==
  [][plast'.op = "message" =>
       LET m == plast'.msg IN
       /\ Cardinality(plast'.paths) = 1
       /\ plast'.paths =
            IF isLogMessage(m) THEN {"log"}
            ELSE IF isMyActionMessage(m, HostProviderId) THEN {"action"}
            ELSE {"generic"}
       /\ (PropIs(m, "type", "act") /\ ~PropIs(m, "providerId", HostProviderId)) =>
            plast'.paths = {"generic"}
       /\ "action" \notin plast'.paths =>
            /\ plast'.invoked = << >>
            /\ plast'.sent = << >>
            /\ delegateCalls' = delegateCalls]_vars

\* The generic handler has just been given an act envelope addressed to
\* another provider, received on a view that is not the current one.
C21_Witness ==
  /\ plast.op = "message"
  /\ PropIs(plast.msg, "type", "act")
  /\ PropIs(plast.msg, "providerId", OtherProviderId)
  /\ plast.paths = {"generic"}
  /\ plast.view # currentView

\* C22: an act envelope for this provider whose key is none of the keys the
\* action delegate map defines makes the listener fail with the
\* unknown-action-key error, call no function and send no patch envelope.
C22_UnknownActionKeyFails ==
  [][(/\ plast'.op = "message"
      /\ isMyActionMessage(plast'.msg, HostProviderId)
      /\ ~HasOwn(webviewActionDelegate, plast'.msg.props["key"].s)) =>
       /\ plast'.threw = "UnknownActionKey"
       /\ plast'.invoked = << >>
       /\ plast'.sent = << >>
       /\ delegateCalls' = delegateCalls]_vars

\* C23: an act envelope for this provider whose key is a function of the
\* delegate map calls that function once with the params in order; when its
\* result is available (at once, or when its promise resolves) exactly one
\* envelope {type: 'patch', providerId, key, patch: result} is sent, also
\* for an undefined result, and none is sent before.
C23_KnownKeyOnePatch ==
  [][/\ (/\ plast'.op = "message"
         /\ isMyActionMessage(plast'.msg, HostProviderId)
         /\ HasOwn(webviewActionDelegate, plast'.key)
         /\ IsFunction(webviewActionDelegate, plast'.key)) =>
          /\ plast'.invoked = <<[key |-> plast'.msg.props["key"].s,
                                 params |-> plast'.msg.props["params"].elems]>>
          /\ IF plast'.threw = "" /\ delegateCalls' = delegateCalls
               THEN /\ Len(plast'.sent) = 1
                    /\ plast'.sent[1].envelope =
                         [type |-> "patch", providerId |-> HostProviderId,
                          key |-> plast'.msg.props["key"].s, patch |-> plast'.result]
               ELSE plast'.sent = << >>
     /\ (plast'.op = "settle" /\ plast'.threw = "") =>
          /\ plast'.invoked = << >>
          /\ Len(delegateCalls) = Len(delegateCalls') + 1
          /\ Len(plast'.sent) = 1
          /\ plast'.sent[1].envelope =
               [type |-> "patch", providerId |-> HostProviderId, key |-> plast'.key,
                patch |-> plast'.result]]_vars

\* The promise of multiplyBy has just resolved with undefined and its one
\* patch envelope was sent.
C23_Witness ==
  /\ plast.op = "settle"
  /\ plast.key = "multiplyBy"
  /\ plast.result = UndefinedResult
  /\ Len(plast.sent) = 1
  /\ plast.sent[1].envelope.patch = UndefinedResult

\* C24: the patch envelope produced for an act message is sent on the view
\* the act message was received on.
C24_PatchOnSameTransport ==
  \A j \in 1..Len(plast.sent) : plast.sent[j].to = plast.view

\* C28: every message guard (request, response, error, event, act, patch,
\* log) returns false for an array value, also for an array object that
\* carries every mandatory property of the variant with the right type.
C28_GuardsRejectArrays ==
  glast.value.kind = "array" => \A g \in Guards : ~glast.results[g]

\* The claim's reading of a context: it is absent when the property is not
\* there or holds undefined.
ContextAbsent(value) == ~In(value, "context") \/ TypeOfProp(value, "context") = "undefined"
ContextWellFormed(value) ==
  /\ TypeOfProp(value, "context") = "object"
  /\ {"viewId", "viewType", "timestamp"} \subseteq DOMAIN value.ctx
  /\ value.ctx["viewId"] = "string"
  /\ value.ctx["viewType"] = "string"
  /\ value.ctx["timestamp"] = "number"

\* C29: isViewApiRequest returns true exactly for a non-null object whose
\* type is 'request', whose id and key are strings, whose params is an
\* array and whose context is absent or an object with a string viewId, a
\* string viewType and a number timestamp; a context that is there and is
\* malformed gives false, and a further property, on the value or on its
\* context, changes nothing.
C29_RequestGuardExact ==
  glast.op = "guards" =>
    LET value == glast.value IN
    /\ glast.results["request"] =
         (/\ value.kind \in {"object", "array"}
          /\ PropIs(value, "type", "request")
          /\ TypeOfProp(value, "id") = "string"
          /\ TypeOfProp(value, "key") = "string"
          /\ TypeOfProp(value, "params") = "array"
          /\ (ContextAbsent(value) \/ ContextWellFormed(value)))
    /\ (~ContextAbsent(value) /\ ~ContextWellFormed(value)) => ~glast.results["request"]
    /\ isViewApiRequest([value EXCEPT !.props = WithExtra(@)]) = glast.results["request"]
    /\ TypeOfProp(value, "context") = "object" =>
         isViewApiRequest([value EXCEPT !.ctx = ("more" :> "string") @@ @])
           = glast.results["request"]

\* The guard has just rejected a request whose context lacks its timestamp.
C29_Witness ==
  /\ glast.op = "guards"
  /\ isViewApiRequestAnyContext(glast.value)
  /\ TypeOfProp(glast.value, "context") = "object"
  /\ DOMAIN glast.value.ctx = {"viewId", "viewType"}
  /\ ~glast.results["request"]

\* The property names the claim wants gone: those whose lower-cased form is
\* one of the six.
ClaimedDisallowed(key) ==
  toLowerCase(key) \in {"password", "secret", "token", "apikey", "apisecret", "content"}
RECURSIVE HasDisallowedKey(_)
HasDisallowedKey(node) ==
  \E i \in 1..Len(node.e) :
    \/ node.t = "object" /\ ClaimedDisallowed(node.e[i].k)
    \/ HasDisallowedKey(node.e[i].v)
RECURSIVE WithoutDisallowed(_)
\* The payload with every such property removed and everything else as it was.
WithoutDisallowed(node) ==
  LET kept == IF node.t = "object"
                THEN SelectSeq(node.e, LAMBDA x : ~ClaimedDisallowed(x.k))
                ELSE node.e
  IN Node(node.t, [i \in 1..Len(kept) |-> Entry(kept[i].k, WithoutDisallowed(kept[i].v))],
          node.s)

\* C30: the payload handed to the logging sink holds at no depth a key
\* whose lower-cased name is one of password, secret, token, apikey,
\* apisecret, content, and every other key and value of the payload logged
\* is in it unchanged.
C30_SanitizationComplete ==
  (loglast.op = "log" /\ loglast.data.t = "object") =>
    /\ ~HasDisallowedKey(loglast.sunk)
    /\ loglast.sunk = WithoutDisallowed(loglast.data)

\* C25: for every validated request the dispatcher makes one reply that
\* carries the request's id: a response (without a value field when the
\* handler returned undefined) when the handler completes, an error
\* envelope when the key is unknown, an error envelope carrying the
\* failure's message when the handler throws; its promise never rejects.
C25_DispatcherRepliesWithSameId ==
  (dlast.op = "handleMessage" /\ isViewApiRequest(dlast.msg)) =>
    LET id == dlast.msg.props["id"].s
        key == dlast.msg.props["key"].s
        name == dlast.msg.props["params"].elems[1]
    IN /\ ~dlast.threw
       /\ Len(dlast.sent) = 1
       /\ dlast.sent[1].envelope.id = Str(id)
       /\ IF key \notin HandlerKeys
            THEN /\ dlast.sent[1].envelope.type = Str("error")
                 /\ dlast.sent[1].envelope.value.ty = "string"
          ELSE IF dlast.how = "ok"
            THEN /\ dlast.sent[1].envelope.type = Str("response")
                 /\ dlast.sent[1].envelope.value =
                      IF key = "saveCount" THEN Absent
                      ELSE Str("Hello, " \o name \o "!")
          ELSE /\ dlast.sent[1].envelope.type = Str("error")
               /\ dlast.sent[1].envelope.value =
                    Str(IF dlast.how = "throwsError" THEN "handler failed"
                        ELSE "not an error")

\* What the future of the i-th call must hold once the host has replied
\* with how its handler behaved.
SettledAsHandled(i) ==
  /\ i \in DOMAIN replies
  /\ IF requests[i].key \notin HandlerKeys
       THEN deferreds[i].state = "rejected"
     ELSE IF replies[i].how = "ok"
       THEN /\ deferreds[i].state = "fulfilled"
            /\ deferreds[i].value = ValueOf(HandlerValue(requests[i].key, <<"x">>))
     ELSE /\ deferreds[i].state = "rejected"
          /\ deferreds[i].value = Err(StringOf(HandlerThrows(replies[i].how)))

\* C26: over a transport that delivers every message, the future of every
\* request of a client that is not torn down is eventually settled:
\* resolved with the value the host's handler returned, or rejected with an
\* Error that carries the handler's error message; also for several
\* requests outstanding at once and replies in any order.
C26_EveryRequestSettles ==
  \A i \in 1..MaxRequests : (Len(deferreds) >= i) ~> SettledAsHandled(i)

\* The j-th action has been applied in the component that dispatched it.
AppliedToDispatcher(j) ==
  /\ Len(actions) >= j
  /\ actions[j].stage = "delivered"
  /\ actions[j].inst \in actions[j].applied
  /\ actions[j].patch.key = actions[j].envelope.key
  /\ actions[j].next = Reduce(actions[j].envelope.key, actions[j].prev, actions[j].patch.patch.n)

\* C27: every action dispatched through the actor with a known key whose
\* host delegate completes is followed, eventually, by one application of
\* the reducer of the same key in the component that dispatched it, to the
\* state the component then has and with the delegate's result as the patch.
C27_ActionReachesItsReducer ==
  \A j \in 1..MaxActions :
    (Len(actions) >= j /\ actions[j].stage \in {"patched", "dropped"}) ~> AppliedToDispatcher(j)

\* C31: the RPC client ignores every inbound message that has a providerId
\* property: whatever its type, such a message settles no pending request,
\* changes no entry of the table and invokes no event listener.
C31_ProviderMessagesIgnored ==
  [][(last'.op = "message" /\ last'.msg.providerId # Absent)
       => /\ pendingRequests' = pendingRequests
          /\ deferreds' = deferreds
          /\ last'.invoked = << >>]_vars

\* C32: the id generated for a new request differs from the id of every
\* request that is still outstanding: storing the new entry overwrites no
\* entry of the pending table.
C32_FreshRequestId ==
  [][Len(requests') = Len(requests) + 1
       => requests'[Len(requests')].id \notin DOMAIN pendingRequests]_vars

\* C33: a disposal notification from a transport removes only the entries
\* that hold that transport: an id that has been registered again with
\* another transport keeps its entry when the earlier transport is disposed.
C33_DisposalRemovesOwnEntryOnly ==
  [][hlast'.op = "viewDisposed"
       => \A id \in DOMAIN connectedViews :
            connectedViews[id].view # hlast'.view
              => /\ id \in DOMAIN connectedViews'
                 /\ connectedViews'[id] = connectedViews[id]]_vars

\* C34: a broadcast removes a transport only if the send to it failed: a
\* transport whose postMessage returned a future that resolves, or a
\* boolean or nothing, is still registered when triggerEvent returns.
C34_SuccessfulSendKeepsView ==
  [][hlast'.op = "triggerEvent"
       => \A id \in hlast'.attempted :
            hlast'.outcomes[id] \in {"resolve", "sync"} => id \in DOMAIN connectedViews']_vars

\* C37: once dispose() has been called the provider stays inert: the count
\* stays 0 and no later triggerEvent sends to any transport, whatever
\* registerView calls and disposal notifications come in between.
C37_InertAfterDispose ==
  disposeCalled
    => /\ getConnectedViewCount = 0
       /\ hlast.op = "triggerEvent" => hlast.attempted = {}

\* C35: the provider posts patches in the order in which it received their
\* act messages: of two acts received on the same transport, the patch of
\* the one received first is posted first, also when the delegate of the
\* second completes first.
C35_PatchesInOrderOfReceipt ==
  \A i, j \in 1..Len(actions) :
    (/\ actions[i].inst = actions[j].inst
     /\ actions[i].received > 0
     /\ actions[i].received < actions[j].received
     /\ actions[i].posted > 0
     /\ actions[j].posted > 0)
      => actions[i].posted < actions[j].posted

\* C36: after teardown the pending table is empty and stays empty, and no
\* future returned by callApi stays pending for ever.  After teardown the
\* message listener is gone and no timer is armed, so a future that is
\* pending then is pending for ever: once the client is torn down, the
\* table holds no entry and no future is pending, also for a callApi made
\* after teardown.
C36_NothingPendingAfterTeardown ==
  phase = "unmounted"
    => /\ pendingRequests = << >>
       /\ \A i \in 1..Len(deferreds) : deferreds[i].state # "pending"

\* C38: in every reachable state each entry of the pending table holds a
\* future that is not settled, and each unsettled future of a callApi made
\* before teardown is held by exactly one entry, under its own request id.
C38_TableMatchesUnsettledFutures ==
  /\ \A id \in DOMAIN pendingRequests : deferreds[pendingRequests[id]].state = "pending"
  /\ phase # "unmounted"
       => \A i \in 1..Len(deferreds) :
            deferreds[i].state = "pending"
              => {id \in DOMAIN pendingRequests : pendingRequests[id] = i} = {requests[i].id}

\* C39: when the action delegate throws, or the promise it returned
\* rejects, no patch is posted for that act message, the generic handler
\* is not invoked for it, and the provider is left as it was for the other
\* messages: the current view and the listeners are unchanged and every
\* other suspended invocation is still suspended.
C39_DelegateFailureIsContained ==
  [][plast'.threw = "DelegateError"
       => /\ plast'.sent = << >>
          /\ "generic" \notin plast'.paths
          /\ currentView' = currentView
          /\ providerViews' = providerViews
          /\ IF plast'.op = "settle"
               THEN /\ Len(delegateCalls') = Len(delegateCalls) - 1
                    /\ \A k \in 1..Len(delegateCalls') :
                         \E j \in 1..Len(delegateCalls) : delegateCalls'[k] = delegateCalls[j]
               ELSE delegateCalls' = delegateCalls]_vars

C39_Witness ==
  /\ plast.op = "message"
  /\ plast.threw = "DelegateError"
  /\ plast.invoked # << >>
  /\ plast.key = "increment"

\* C40: the keys the actor accepts are the keys the patch handler accepts:
\* a patch addressed to a mounted hook is applied, and raises no error,
\* exactly when actor[key] returns a callable for its key, symbol keys
\* included.
C40_ActorAndPatchKeysAgree ==
  [][elast'.op = "message"
       => \A i \in Instances :
            (engines[i].phase = "mounted" /\ isMyPatchMessage(elast'.msg, engines[i].providerId))
              => (ActorGetError(engines[i].postReducer, elast'.msg.key) = ""
                    <=> (i \in elast'.accepted /\ elast'.threw[i] = ""))]_vars

====
